---- MODULE Spec2Model ----
(***************************************************************************)
(* Event-sourced inventory ledger: MemoryDatabase (the tenant -> ledger    *)
(* map with an atomically published count) over PersistenceManager (the    *)
(* write-ahead log and its recovery).                                      *)
(*                                                                         *)
(* Strings are sequences of one-character strings, so that the WAL line    *)
(* format ('|'-delimited fields, '\n'-terminated lines) is computed the    *)
(* way the code computes it.  unit_price (a double) is an integer number   *)
(* of thousandths.                                                         *)
(***************************************************************************)
EXTENDS Integers, Sequences, FiniteSets, TLC

VARIABLES
    managers_,             \* MemoryDatabase::managers_ : manager_id -> ManagerData
    persistence_,          \* MemoryDatabase::persistence_ is non-null
    persistence_enabled_,  \* MemoryDatabase::persistence_enabled_
    wal,                   \* bytes of <data_dir>/current.wal (survives the process)
    wal_stream_,           \* state of PersistenceManager::wal_stream_: "good" | "failed"
    now,                   \* std::chrono::system_clock, in clock ticks
    logged,                \* ghost: per ledger element, was its WAL line written and flushed
    acked,                 \* ghost: per tenant, the events whose append returned success
    appends,               \* ghost: number of appends that passed validation so far
    wr,                    \* a writer thread inside appendTransaction: where it is, its arguments
    rd,                    \* a reader thread inside getTransactions: where it is, its locals
    clients,               \* the HTTP server's client threads: where each is, its locals
    data_dir_,             \* what the directory PersistenceManager::data_dir_ names holds besides
                           \* current.wal: the .lock file's holder, the snapshot files, the
                           \* rotated WAL segments, and whether a second process has a
                           \* PersistenceManager open on it
    snap,                  \* a thread inside PersistenceManager::createSnapshot: where it is, its locals
    ret                    \* ghost: the last API call and what it returned

vars == <<managers_, persistence_, persistence_enabled_, wal, wal_stream_, now,
          logged, acked, appends, wr, rd, clients, data_dir_, snap, ret>>

threads == <<wr, rd, clients>>

----------------------------------------------------------------------------
(* Bounds of the model *)

MaxAppends == 2
MaxClock == 1
NumClients == 2
MaxRaceAppends == 3

Clients == 1..NumClients

INT_MAX == 2147483647

----------------------------------------------------------------------------
(* Strings *)

EMPTY == <<>>
BAR == "|"
NL == "\n"

DigitChars == <<"0", "1", "2", "3", "4", "5", "6", "7", "8", "9">>

IsDigit(c) == \E i \in 1..10 : DigitChars[i] = c

DigitVal(c) == (CHOOSE i \in 1..10 : DigitChars[i] = c) - 1

\* operator<< (int): decimal digits of a natural number
RECURSIVE NatToStr(_)
NatToStr(n) ==
    IF n < 10 THEN <<DigitChars[n + 1]>>
    ELSE NatToStr(n \div 10) \o <<DigitChars[(n % 10) + 1]>>

\* operator<< (int): a '-' sign before the digits of a negative number
IntToStr(n) == IF n < 0 THEN <<"-">> \o NatToStr(-n) ELSE NatToStr(n)

\* operator<< (double) under std::fixed << std::setprecision(2): the value
\* rounded to hundredths, always with two fractional digits
FormatFixed2(p) ==
    LET a == IF p < 0 THEN -p ELSE p
        cents == (a + 5) \div 10
        body == NatToStr(cents \div 100) \o <<".">>
                  \o <<DigitChars[((cents \div 10) % 10) + 1], DigitChars[(cents % 10) + 1]>>
    IN  IF p < 0 /\ cents > 0 THEN <<"-">> \o body ELSE body

\* the longest prefix of s made of digits
RECURSIVE DigitPrefix(_)
DigitPrefix(s) ==
    IF s = <<>> \/ ~IsDigit(Head(s)) THEN <<>>
    ELSE <<Head(s)>> \o DigitPrefix(Tail(s))

RECURSIVE DigitsToNat(_, _)
DigitsToNat(s, acc) ==
    IF s = <<>> THEN acc ELSE DigitsToNat(Tail(s), acc * 10 + DigitVal(Head(s)))

\* std::stoi: optional sign, then at least one digit; what follows the digits
\* is ignored; no digit -> std::invalid_argument, beyond int -> std::out_of_range
stoi(s) ==
    LET neg == s # <<>> /\ Head(s) = "-"
        rest == IF neg THEN Tail(s) ELSE s
        ds == DigitPrefix(rest)
        v == DigitsToNat(ds, 0)
    IN  IF ds = <<>> \/ v > INT_MAX THEN [ok |-> FALSE, val |-> 0]
        ELSE [ok |-> TRUE, val |-> IF neg THEN -v ELSE v]

\* std::stod: optional sign, digits, optional '.' and digits; the value in
\* thousandths; no digit -> std::invalid_argument
stod(s) ==
    LET neg == s # <<>> /\ Head(s) = "-"
        rest == IF neg THEN Tail(s) ELSE s
        ip == DigitPrefix(rest)
        after == SubSeq(rest, Len(ip) + 1, Len(rest))
        fp == IF after # <<>> /\ Head(after) = "." THEN DigitPrefix(Tail(after)) ELSE <<>>
        f3 == SubSeq(fp \o <<"0", "0", "0">>, 1, 3)
        v == DigitsToNat(ip, 0) * 1000 + DigitsToNat(f3, 0)
    IN  IF ip = <<>> /\ fp = <<>> THEN [ok |-> FALSE, val |-> 0]
        ELSE [ok |-> TRUE, val |-> IF neg THEN -v ELSE v]

\* position of the first c in s, 0 when there is none
RECURSIVE FirstIndexFrom(_, _, _)
FirstIndexFrom(s, c, i) ==
    IF i > Len(s) THEN 0
    ELSE IF s[i] = c THEN i
    ELSE FirstIndexFrom(s, c, i + 1)

FirstIndex(s, c) == FirstIndexFrom(s, c, 1)

\* while (std::getline(stream, token, delim)) tokens.push_back(token): a
\* delimiter ends a token, and getline fails at end of input, so that an
\* empty token after the last delimiter is never produced
RECURSIVE GetlineAll(_, _)
GetlineAll(s, delim) ==
    IF s = <<>> THEN <<>>
    ELSE LET k == FirstIndex(s, delim)
         IN  IF k = 0 THEN <<s>>
             ELSE <<SubSeq(s, 1, k - 1)>> \o GetlineAll(SubSeq(s, k + 1, Len(s)), delim)

\* os << f1 << "|" << f2 ... : the fields with a "|" between each two
RECURSIVE JoinBar(_)
JoinBar(fields) ==
    IF Len(fields) = 1 THEN fields[1]
    ELSE fields[1] \o <<BAR>> \o JoinBar(Tail(fields))

\* std::string operator< on the characters the model uses
\* the characters of the model's timestamps and file names, in the order of
\* their char values (std::string::operator< compares char by char)
CharOrder == <<"-", ".", "0", "1", "2", "3", "4", "5", "6", "7", "8", "9",
               "_", "a", "c", "e", "g", "l", "n", "o", "r", "t", "u", "w">>

CharCode(c) == IF \E i \in 1..Len(CharOrder) : CharOrder[i] = c
               THEN CHOOSE i \in 1..Len(CharOrder) : CharOrder[i] = c
               ELSE Len(CharOrder) + 1

RECURSIVE StrLess(_, _)
StrLess(a, b) ==
    IF b = <<>> THEN FALSE
    ELSE IF a = <<>> THEN TRUE
    ELSE IF CharCode(Head(a)) # CharCode(Head(b)) THEN CharCode(Head(a)) < CharCode(Head(b))
    ELSE StrLess(Tail(a), Tail(b))

----------------------------------------------------------------------------
(* TransactionRecord *)

\* TransactionRecord() : quantity(0), unit_price(0.0), every string empty
DefaultRecord ==
    [trans_id |-> EMPTY, item_id |-> EMPTY, item_name |-> EMPTY, type |-> EMPTY,
     quantity |-> 0, timestamp |-> EMPTY, manager_id |-> EMPTY, note |-> EMPTY,
     category |-> EMPTY, model |-> EMPTY, unit |-> EMPTY, unit_price |-> 0,
     partner_id |-> EMPTY, partner_name |-> EMPTY, warehouse_id |-> EMPTY,
     document_no |-> EMPTY]

TYPE_IN == <<"i", "n">>
TYPE_OUT == <<"o", "u", "t">>

----------------------------------------------------------------------------
(* PersistenceManager: the WAL line format and recovery *)

\* PersistenceManager::getCurrentTimestamp: the clock as a fixed-width string
getCurrentTimestamp(clock) == <<"t", DigitChars[clock + 1]>>

\* PersistenceManager::serializeTransaction
serializeTransaction(ts, manager_id, trans) ==
    JoinBar(<<ts, manager_id, trans.trans_id, trans.item_id, trans.item_name,
              trans.type, IntToStr(trans.quantity), FormatFixed2(trans.unit_price),
              trans.category, trans.model, trans.unit, trans.partner_id,
              trans.partner_name, trans.warehouse_id, trans.document_no, trans.note>>)

\* PersistenceManager::deserializeTransaction: ok is its return value
deserializeTransaction(line) ==
    LET fields == GetlineAll(line, BAR)
        failed == [ok |-> FALSE, manager_id |-> EMPTY, trans |-> DefaultRecord]
    IN  IF Len(fields) # 16 THEN failed
        ELSE LET q == stoi(fields[7])
                 p == stod(fields[8])
             IN  IF ~q.ok \/ ~p.ok THEN failed
                 ELSE [ok |-> TRUE,
                       manager_id |-> fields[2],
                       trans |-> [DefaultRecord EXCEPT
                           !.trans_id = fields[3], !.item_id = fields[4],
                           !.item_name = fields[5], !.type = fields[6],
                           !.quantity = q.val, !.unit_price = p.val,
                           !.category = fields[9], !.model = fields[10],
                           !.unit = fields[11], !.partner_id = fields[12],
                           !.partner_name = fields[13], !.warehouse_id = fields[14],
                           !.document_no = fields[15], !.note = fields[16],
                           !.timestamp = fields[1]]]

\* data[manager_id].push_back(trans) on an unordered_map of vectors
PushBackTo(data, manager_id, trans) ==
    IF manager_id \in DOMAIN data
    THEN [data EXCEPT ![manager_id] = Append(@, trans)]
    ELSE [m \in DOMAIN data \cup {manager_id} |->
            IF m = manager_id THEN <<trans>> ELSE data[m]]

\* mutant of RecoverLines: a line that does not parse ends the recovery
RECURSIVE RecoverLines_StopAtBadLine(_, _)
RecoverLines_StopAtBadLine(lines, data) ==
    IF lines = <<>> THEN data
    ELSE LET line == Head(lines)
             d == deserializeTransaction(line)
         IN  IF line = <<>> THEN RecoverLines_StopAtBadLine(Tail(lines), data)
             ELSE IF d.ok
                  THEN RecoverLines_StopAtBadLine(Tail(lines),
                                                  PushBackTo(data, d.manager_id, d.trans))
                  ELSE data

\* the while (std::getline(file, line)) loop of recoverFromWAL
RECURSIVE RecoverLines(_, _)
RecoverLines(lines, data) ==
    IF lines = <<>> THEN data
    ELSE LET line == Head(lines)
             d == deserializeTransaction(line)
         IN  IF line = <<>> THEN RecoverLines(Tail(lines), data)
             ELSE IF d.ok
                  THEN RecoverLines(Tail(lines), PushBackTo(data, d.manager_id, d.trans))
                  ELSE RecoverLines(Tail(lines), data)

\* wal_file_path_ without the directory: the active WAL segment
CURRENT_WAL == <<"c", "u", "r", "r", "e", "n", "t", ".", "w", "a", "l">>

\* PersistenceManager::generateWALFilename without the directory: the name a
\* rotated segment gets, "wal_" + the clock + ".log"
generateWALFilename(clock) ==
    <<"w", "a", "l", "_">> \o <<DigitChars[clock + 1]>> \o <<".", "l", "o", "g">>

\* std::sort(wal_files.begin(), wal_files.end()) on file names
SortNames(names) ==
    CHOOSE f \in [1..Cardinality(names) -> names] :
        \A i, j \in 1..Cardinality(names) : i < j => StrLess(f[i], f[j])

\* PersistenceManager::getWALFiles: the names in the data directory that end
\* in ".wal" or ".log", sorted; current.wal exists once the constructor ran
getWALFiles == SortNames({CURRENT_WAL} \cup DOMAIN data_dir_.segments)

\* the for (wal_file : wal_files) loop of recoverFromWAL, over the files' bytes
RECURSIVE RecoverFiles(_, _)
RecoverFiles(files, data) ==
    IF files = <<>> THEN data
    ELSE RecoverFiles(Tail(files), RecoverLines(GetlineAll(Head(files), NL), data))

\* PersistenceManager::recoverFromWAL, `file` being the bytes of current.wal
recoverFromWAL(file) ==
    RecoverFiles([i \in 1..Len(getWALFiles) |->
                    IF getWALFiles[i] = CURRENT_WAL THEN file
                    ELSE data_dir_.segments[getWALFiles[i]]], <<>>)

\* the field checks of validateDataIntegrity on one record
ValidRecovered(trans) ==
    /\ trans.trans_id # EMPTY
    /\ trans.item_id # EMPTY
    /\ (trans.type = TYPE_IN \/ trans.type = TYPE_OUT)
    /\ trans.quantity > 0

\* PersistenceManager::validateDataIntegrity
validateDataIntegrity(data) ==
    \A m \in DOMAIN data :
        /\ \A i \in 2..Len(data[m]) :
              ~StrLess(data[m][i].timestamp, data[m][i - 1].timestamp)
        /\ \A i \in 1..Len(data[m]) : ValidRecovered(data[m][i])

----------------------------------------------------------------------------
(* Inputs of the model *)

M1 == <<"a">>
M2 == <<"b">>
T1 == <<"x">>
T2 == <<"y">>
I1 == <<"i">>
BADTYPE == <<"z">>

\* an event as a caller builds it
Event(tid, iid, ty, q, price, doc, nt) ==
    [DefaultRecord EXCEPT
        !.trans_id = tid, !.item_id = iid, !.item_name = <<"n">>, !.type = ty,
        !.quantity = q, !.unit_price = price, !.category = <<"c">>,
        !.model = <<"m">>, !.unit = <<"u">>, !.partner_id = <<"p">>,
        !.partner_name = <<"q">>, !.warehouse_id = <<"w">>,
        !.document_no = doc, !.note = nt, !.timestamp = <<"t", "9">>]

ManagerIds == {M1, M2}

ValidEvents ==
    { Event(T1, I1, TYPE_IN, 5, 2000, <<"d">>, <<"n">>),
      Event(T2, I1, TYPE_OUT, 3, 4000, EMPTY, <<"n">>),
      Event(T2, I1, TYPE_IN, 12, 2000, <<"d">>, EMPTY) }

InvalidEvents ==
    { Event(EMPTY, I1, TYPE_IN, 5, 2000, EMPTY, <<"n">>),
      Event(T1, EMPTY, TYPE_IN, 5, 2000, EMPTY, <<"n">>),
      Event(T1, I1, BADTYPE, 5, 2000, EMPTY, <<"n">>),
      Event(T1, I1, TYPE_IN, 0, 2000, EMPTY, <<"n">>),
      Event(T1, I1, BADTYPE, 0, 2000, EMPTY, <<"n">>),
      Event(EMPTY, I1, BADTYPE, 5, 2000, EMPTY, <<"n">>) }

Events == ValidEvents \cup InvalidEvents

\* the calls of appendTransaction the model makes: <<manager_id, trans>>
AppendInputs ==
    (ManagerIds \X ValidEvents) \cup ({M1} \X InvalidEvents)
      \cup ({EMPTY} \X { Event(T1, I1, TYPE_IN, 5, 2000, <<"d">>, <<"n">>),
                          Event(T1, I1, BADTYPE, 5, 2000, EMPTY, <<"n">>) })

\* what can happen to one writeToWAL call:
\*   "ok"            the line is written and flushed
\*   "stream_error"  the write or the flush fails in the stream (disk full, I/O error)
\*   "throw_before"  an exception before the write (serializeTransaction)
\*   "throw_after"   an exception after the flush (shouldCreateSnapshot's filesystem calls)
IoOutcomes == {"ok", "stream_error", "throw_before", "throw_after"}

----------------------------------------------------------------------------
(* PersistenceManager::writeToWAL *)

\* The stream has no exception mask and its state is never tested: a write
\* on a failed stream, or one that fails, appends nothing and is not reported.
writeToWAL(io, manager_id, trans) ==
    LET line == serializeTransaction(getCurrentTimestamp(now), manager_id, trans)
        written == wal \o line \o <<NL>>
    IN  CASE io = "throw_before" ->
               [ok |-> FALSE, wal |-> wal, stream |-> wal_stream_, flushed |-> FALSE]
          [] io = "stream_error" \/ wal_stream_ = "failed" ->
               [ok |-> io # "throw_after", wal |-> wal, stream |-> "failed", flushed |-> FALSE]
          [] io = "throw_after" ->
               [ok |-> FALSE, wal |-> written, stream |-> wal_stream_, flushed |-> TRUE]
          [] OTHER ->
               [ok |-> TRUE, wal |-> written, stream |-> wal_stream_, flushed |-> TRUE]

----------------------------------------------------------------------------
(* MemoryDatabase *)

NoManagers == <<>>

\* mutant of Validate: the quantity test is "< 0"
Validate_ZeroQuantity(manager_id, trans) ==
    IF manager_id = EMPTY THEN "INVALID_PARAMETER"
    ELSE IF trans.trans_id = EMPTY \/ trans.item_id = EMPTY THEN "INVALID_PARAMETER"
    ELSE IF trans.type # TYPE_IN /\ trans.type # TYPE_OUT THEN "INVALID_TRANSACTION_TYPE"
    ELSE IF trans.quantity < 0 THEN "INVALID_PARAMETER"
    ELSE "SUCCESS"

\* the input validation of appendTransaction
Validate(manager_id, trans) ==
    IF manager_id = EMPTY THEN "INVALID_PARAMETER"
    ELSE IF trans.trans_id = EMPTY \/ trans.item_id = EMPTY THEN "INVALID_PARAMETER"
    ELSE IF trans.type # TYPE_IN /\ trans.type # TYPE_OUT THEN "INVALID_TRANSACTION_TYPE"
    ELSE IF trans.quantity <= 0 THEN "INVALID_PARAMETER"
    ELSE "SUCCESS"

\* mutant of IsDuplicate: the scan starts at the second element
IsDuplicate_SkipFirst(manager_id, trans) ==
    /\ manager_id \in DOMAIN managers_
    /\ \E i \in 2..Len(managers_[manager_id].transactions) :
          /\ i <= managers_[manager_id].count
          /\ managers_[manager_id].transactions[i].trans_id = trans.trans_id

\* mutant of IsDuplicate: the scan goes over every tenant's ledger
IsDuplicate_AnyTenant(manager_id, trans) ==
    \E m \in DOMAIN managers_ :
        \E i \in 1..Len(managers_[m].transactions) :
            /\ i <= managers_[m].count
            /\ managers_[m].transactions[i].trans_id = trans.trans_id

\* the duplicate scan of appendTransaction over [0, count)
IsDuplicate(manager_id, trans) ==
    /\ manager_id \in DOMAIN managers_
    /\ \E i \in 1..Len(managers_[manager_id].transactions) :
          /\ i <= managers_[manager_id].count
          /\ managers_[manager_id].transactions[i].trans_id = trans.trans_id

\* std::vector's capacity after a push_back that finds size() = capacity()
\* (libstdc++ doubles it)
GrowCapacity(cap) == IF cap = 0 THEN 1 ELSE 2 * cap

\* ManagerData& data = managers_[manager_id]; data.transactions.push_back(trans)
PushBack(mgrs, manager_id, trans) ==
    IF manager_id \in DOMAIN mgrs
    THEN [mgrs EXCEPT ![manager_id].transactions = Append(@, trans),
                      ![manager_id].capacity =
                          IF Len(mgrs[manager_id].transactions) = @ THEN GrowCapacity(@)
                          ELSE @]
    ELSE [m \in DOMAIN mgrs \cup {manager_id} |->
            IF m = manager_id
            THEN [transactions |-> <<trans>>, count |-> 0, capacity |-> 1]
            ELSE mgrs[m]]

\* mutant of Publish: the counter is incremented twice
Publish_AddTwo(mgrs, manager_id) == [mgrs EXCEPT ![manager_id].count = @ + 2]

\* mutant of Publish: the counter is stored, not incremented
Publish_StoreOne(mgrs, manager_id) == [mgrs EXCEPT ![manager_id].count = 1]

\* data.count.fetch_add(1, std::memory_order_release)
Publish(mgrs, manager_id) == [mgrs EXCEPT ![manager_id].count = @ + 1]

\* ghost bookkeeping: one more element in a per-tenant sequence
GhostAppend(g, manager_id, x) ==
    IF manager_id \in DOMAIN g THEN [g EXCEPT ![manager_id] = Append(@, x)]
    ELSE [m \in DOMAIN g \cup {manager_id} |-> IF m = manager_id THEN <<x>> ELSE g[m]]

Ret(op, manager_id, trans, code, io, result, count) ==
    [op |-> op, manager_id |-> manager_id, trans |-> trans, code |-> code,
     io |-> io, result |-> result, count |-> count]

\* MemoryDatabase::appendTransaction
appendTransaction(manager_id, trans, io) ==
    LET v == Validate(manager_id, trans)
        use_wal == persistence_enabled_ /\ persistence_
        w == writeToWAL(io, manager_id, trans)
    IN  /\ UNCHANGED <<data_dir_, snap, persistence_, persistence_enabled_, now, threads>>
        /\ IF v # "SUCCESS" THEN
               /\ ret' = Ret("append", manager_id, trans, v, "none", <<>>, 0)
               /\ UNCHANGED <<managers_, wal, wal_stream_, logged, acked, appends>>
           ELSE IF IsDuplicate(manager_id, trans) THEN
               /\ ret' = Ret("append", manager_id, trans, "DUPLICATE_TRANSACTION_ID",
                             "none", <<>>, 0)
               /\ UNCHANGED <<managers_, wal, wal_stream_, logged, acked, appends>>
           ELSE IF use_wal /\ ~w.ok THEN
               /\ appends < MaxAppends
               /\ appends' = appends + 1
               /\ ret' = Ret("append", manager_id, trans, "WAL_WRITE_FAILED", io, <<>>, 0)
               /\ wal' = w.wal
               /\ wal_stream_' = w.stream
               /\ UNCHANGED <<managers_, logged, acked>>
           ELSE
               /\ appends < MaxAppends
               /\ appends' = appends + 1
               /\ ret' = Ret("append", manager_id, trans, "SUCCESS",
                             IF use_wal THEN io ELSE "none", <<>>, 0)
               /\ wal' = IF use_wal THEN w.wal ELSE wal
               /\ wal_stream_' = IF use_wal THEN w.stream ELSE wal_stream_
               /\ managers_' = Publish(PushBack(managers_, manager_id, trans), manager_id)
               /\ logged' = GhostAppend(logged, manager_id, use_wal /\ w.flushed)
               /\ acked' = GhostAppend(acked, manager_id,
                                        [trans |-> trans, flushed |-> use_wal /\ w.flushed])

\* the outcomes of writeToWAL a call can meet: one when it never reaches the WAL
IoChoices(manager_id, trans) ==
    IF /\ Validate(manager_id, trans) = "SUCCESS"
       /\ ~IsDuplicate(manager_id, trans)
       /\ persistence_enabled_ /\ persistence_
    THEN IoOutcomes ELSE {"ok"}

\* mutant of Transactions: a read that hands out each element once, starting
\* after what the previous read of the tenant returned
Transactions_Cursor(mgrs, manager_id) ==
    IF manager_id \notin DOMAIN mgrs THEN <<>>
    ELSE LET data == mgrs[manager_id]
             n == IF data.count < Len(data.transactions) THEN data.count
                  ELSE Len(data.transactions)
             from == IF ret.op = "getTransactions" /\ ret.manager_id = manager_id
                     THEN Len(ret.result) + 1 ELSE 1
         IN  SubSeq(data.transactions, from, n)

\* MemoryDatabase::getTransactions as a function of the map
Transactions(mgrs, manager_id) ==
    IF manager_id \notin DOMAIN mgrs THEN <<>>
    ELSE LET data == mgrs[manager_id]
             n == IF data.count < Len(data.transactions) THEN data.count
                  ELSE Len(data.transactions)
         IN  SubSeq(data.transactions, 1, n)

\* MemoryDatabase::getTransactionCount as a function of the map
TransactionCount(mgrs, manager_id) ==
    IF manager_id \notin DOMAIN mgrs THEN 0 ELSE mgrs[manager_id].count

\* mutant of getTransactions: the ledger is looked up with managers_[manager_id],
\* which inserts an empty ledger for a tenant the map does not hold
getTransactions_Inserting(manager_id) ==
    /\ ret' = Ret("getTransactions", manager_id, DefaultRecord, "SUCCESS", "none",
                  Transactions(managers_, manager_id), 0)
    /\ managers_' = [m \in DOMAIN managers_ \cup {manager_id} |->
                       IF m \in DOMAIN managers_ THEN managers_[m]
                       ELSE [transactions |-> <<>>, count |-> 0, capacity |-> 0]]
    /\ UNCHANGED <<data_dir_, snap, persistence_, persistence_enabled_, wal, wal_stream_,
                   now, logged, acked, appends, threads>>

\* MemoryDatabase::getTransactions
getTransactions(manager_id) ==
    /\ ret' = Ret("getTransactions", manager_id, DefaultRecord, "SUCCESS", "none",
                  Transactions(managers_, manager_id), 0)
    /\ UNCHANGED <<data_dir_, snap, managers_, persistence_, persistence_enabled_, wal, wal_stream_,
                   now, logged, acked, appends, threads>>

\* MemoryDatabase::getTransactionCount
getTransactionCount(manager_id) ==
    /\ ret' = Ret("getTransactionCount", manager_id, DefaultRecord, "SUCCESS", "none",
                  <<>>, TransactionCount(managers_, manager_id))
    /\ UNCHANGED <<data_dir_, snap, managers_, persistence_, persistence_enabled_, wal, wal_stream_,
                   now, logged, acked, appends, threads>>

\* MemoryDatabase::enablePersistence
enablePersistence(enable) ==
    /\ persistence_enabled_ # (enable /\ persistence_)
    /\ persistence_enabled_' = (enable /\ persistence_)
    /\ UNCHANGED <<data_dir_, snap, managers_, persistence_, wal, wal_stream_, now, logged, acked,
                   appends, threads, ret>>

\* a thread that is in no call
IdleWriter == [pc |-> "idle", manager_id |-> EMPTY, trans |-> DefaultRecord,
               flushed |-> FALSE]
IdleReader == [pc |-> "idle", manager_id |-> EMPTY, safe_count |-> 0]

\* a client thread of the HTTP server that is in no call.  slot, realloc: what
\* push_back read; seen: the tenants in the map when operator[] looked;
\* linked: the ManagerData it references is the one the map holds; node: the
\* elements of a ManagerData it references that is no longer in the map;
\* after (ghost): the events whose append had returned when this call began
IdleClient ==
    [pc |-> "idle", manager_id |-> EMPTY, trans |-> DefaultRecord, slot |-> 0,
     realloc |-> FALSE, seen |-> {}, linked |-> TRUE, safe_count |-> 0,
     node |-> <<>>, after |-> {}]

\* no thread is inside createSnapshot
IdleSnap ==
    [pc |-> "idle", snapshot_file |-> 0, data |-> <<>>, next |-> 0, file |-> "closed"]

\* holders of the fcntl write lock on <data_dir>/.lock
NOBODY == "nobody"
THIS_PROCESS == "this"
OTHER_PROCESS == "other"

\* the data directory after the first PersistenceManager was constructed on it:
\* no snapshot yet, the lock taken by this process
FreshDir ==
    [lock |-> THIS_PROCESS, other |-> FALSE, tmp |-> <<>>, snapshots |-> <<>>,
     segments |-> <<>>]

IdleClients == [t \in Clients |-> IdleClient]

\* mutant of Restore: the recovered events are stored but count is left at 0
Restore_Unpublished(data) ==
    [m \in DOMAIN data |-> [transactions |-> data[m], count |-> 0,
                            capacity |-> Len(data[m])]]

\* the ledgers the constructor builds from the recovered data
Restore(data) ==
    [m \in DOMAIN data |-> [transactions |-> data[m], count |-> Len(data[m]),
                            capacity |-> Len(data[m])]]

\* mutant of Recovered: each tenant is validated and adopted on its own
Recovered_PerTenant(file) ==
    LET data == recoverFromWAL(file)
        good == { m \in DOMAIN data : validateDataIntegrity([x \in {m} |-> data[m]]) }
    IN  Restore([m \in good |-> data[m]])

\* MemoryDatabase::MemoryDatabase: what managers_ holds after construction over
\* the WAL bytes `file`, when PersistenceManager's constructor does not throw
Recovered(file) ==
    LET data == recoverFromWAL(file)
    IN  IF DOMAIN data # {} /\ validateDataIntegrity(data) THEN Restore(data)
        ELSE NoManagers

\* mutant of logError: what ErrorHandler::handleCriticalError does, which logs
\* and then calls std::abort for two codes
logError_Critical(code) ==
    IF code \in {"DATA_CORRUPTION_DETECTED", "MEMORY_ALLOCATION_FAILED"}
    THEN "aborted" ELSE "running"

\* ErrorHandler::logError: formats the message and hands it to the logger; the
\* process goes on whatever the code is
logError(code) == "running"

\* MemoryDatabase::MemoryDatabase: where the process stands when the
\* constructor is left.  An exception of PersistenceManager's constructor and
\* a failed integrity validation are both reported through logError.
ConstructorOutcome(file, init_ok) ==
    LET data == recoverFromWAL(file)
    IN  IF ~init_ok THEN logError("PERSISTENCE_INIT_FAILED")
        ELSE IF DOMAIN data # {} /\ ~validateDataIntegrity(data)
        THEN logError("DATA_CORRUPTION_DETECTED")
        ELSE "running"

\* PersistenceManager::acquireFileLock and releaseFileLock across a restart:
\* the ending process's descriptor is closed, which drops its lock; the new
\* PersistenceManager asks for the lock with F_SETLK, which fails without
\* blocking while another process holds it
Relock(lock, init_ok) ==
    IF lock = OTHER_PROCESS THEN OTHER_PROCESS
    ELSE IF init_ok THEN THIS_PROCESS ELSE NOBODY

\* The process ends (a crash or an exit) and a new one is constructed over the
\* same data directory.  init_ok: PersistenceManager's constructor does not throw.
Restart(init_ok) ==
    /\ persistence_' = init_ok
    /\ persistence_enabled_' = init_ok
    /\ wal_stream_' = "good"
    /\ managers_' = IF init_ok THEN Recovered(wal) ELSE NoManagers
    /\ logged' = [m \in DOMAIN managers_' |->
                    [i \in 1..Len(managers_'[m].transactions) |-> TRUE]]
    /\ ret' = Ret("restart", EMPTY, DefaultRecord,
                  IF ConstructorOutcome(wal, init_ok) = "running" THEN "SUCCESS" ELSE "ABORTED",
                  "none", <<>>, 0)
    /\ wr' = IdleWriter
    /\ rd' = IdleReader
    /\ clients' = IdleClients
    /\ snap' = IdleSnap
    /\ data_dir_' = [data_dir_ EXCEPT !.lock = Relock(data_dir_.lock, init_ok)]
    /\ UNCHANGED <<wal, now, acked, appends>>

\* system_clock advances
Tick ==
    /\ now < MaxClock
    /\ now' = now + 1
    /\ UNCHANGED <<data_dir_, snap, managers_, persistence_, persistence_enabled_, wal, wal_stream_,
                   logged, acked, appends, threads, ret>>

\* a fresh data directory and a MemoryDatabase constructed over it
Init ==
    /\ managers_ = NoManagers
    /\ wr = IdleWriter
    /\ rd = IdleReader
    /\ clients = IdleClients
    /\ data_dir_ = FreshDir
    /\ snap = IdleSnap
    /\ persistence_ = TRUE
    /\ persistence_enabled_ = TRUE
    /\ wal = <<>>
    /\ wal_stream_ = "good"
    /\ now = 0
    /\ logged = <<>>
    /\ acked = <<>>
    /\ appends = 0
    /\ ret = Ret("init", EMPTY, DefaultRecord, "SUCCESS", "none", <<>>, 0)

Next ==
    \/ \E in \in AppendInputs : \E io \in IoChoices(in[1], in[2]) :
          appendTransaction(in[1], in[2], io)
    \/ \E m \in ManagerIds : getTransactions(m)
    \/ \E m \in ManagerIds : getTransactionCount(m)
    \/ \E b \in BOOLEAN : enablePersistence(b)
    \/ \E init_ok \in BOOLEAN : Restart(init_ok)
    \/ Tick

Spec == Init /\ [][Next]_vars

----------------------------------------------------------------------------
(* appendTransaction and getTransactions step by step: one writer thread    *)
(* (writers are serialized per tenant by the callers) and one reader thread *)
(* that run concurrently; each step is the code between two accesses to     *)
(* shared state (the atomic count, the vector, the WAL).                    *)

ConcInputs ==
    (ManagerIds \X { Event(T1, I1, TYPE_IN, 5, 2000, <<"d">>, <<"n">>),
                     Event(T2, I1, TYPE_OUT, 3, 4000, EMPTY, <<"n">>) })
      \cup {<<M1, Event(T1, I1, TYPE_IN, 0, 2000, EMPTY, <<"n">>)>>}

\* appendTransaction, lines 92-133: validation and the duplicate scan
W_Call(manager_id, trans) ==
    LET v == Validate(manager_id, trans)
    IN  /\ wr.pc = "idle"
        /\ IF v # "SUCCESS" THEN
               /\ ret' = Ret("append", manager_id, trans, v, "none", <<>>, 0)
               /\ wr' = wr
           ELSE IF IsDuplicate(manager_id, trans) THEN
               /\ ret' = Ret("append", manager_id, trans, "DUPLICATE_TRANSACTION_ID",
                             "none", <<>>, 0)
               /\ wr' = wr
           ELSE
               /\ wr' = [pc |-> "wal", manager_id |-> manager_id, trans |-> trans,
                         flushed |-> FALSE]
               /\ ret' = ret
        /\ UNCHANGED <<data_dir_, snap, managers_, persistence_, persistence_enabled_, wal, wal_stream_,
                       now, logged, acked, appends, rd, clients>>

\* appendTransaction, lines 135-148: the WAL write
W_Wal(io) ==
    LET use_wal == persistence_enabled_ /\ persistence_
        w == writeToWAL(io, wr.manager_id, wr.trans)
    IN  /\ wr.pc = "wal"
        /\ appends < MaxAppends
        /\ appends' = appends + 1
        /\ IF use_wal /\ ~w.ok THEN
               /\ ret' = Ret("append", wr.manager_id, wr.trans, "WAL_WRITE_FAILED", io,
                             <<>>, 0)
               /\ wr' = IdleWriter
           ELSE
               /\ wr' = [wr EXCEPT !.pc = "push", !.flushed = use_wal /\ w.flushed]
               /\ ret' = ret
        /\ wal' = IF use_wal THEN w.wal ELSE wal
        /\ wal_stream_' = IF use_wal THEN w.stream ELSE wal_stream_
        /\ UNCHANGED <<data_dir_, snap, managers_, persistence_, persistence_enabled_, now, logged, acked, rd, clients>>

\* appendTransaction, lines 151-152: managers_[manager_id] and push_back
W_Push ==
    /\ wr.pc = "push"
    /\ managers_' = PushBack(managers_, wr.manager_id, wr.trans)
    /\ logged' = GhostAppend(logged, wr.manager_id, wr.flushed)
    /\ wr' = [wr EXCEPT !.pc = "publish"]
    /\ UNCHANGED <<data_dir_, snap, persistence_, persistence_enabled_, wal, wal_stream_, now, acked,
                   appends, rd, clients, ret>>

\* appendTransaction, lines 156-167: the release increment of count, and the return
W_Publish ==
    /\ wr.pc = "publish"
    /\ managers_' = Publish(managers_, wr.manager_id)
    /\ acked' = GhostAppend(acked, wr.manager_id,
                            [trans |-> wr.trans, flushed |-> wr.flushed])
    /\ ret' = Ret("append", wr.manager_id, wr.trans, "SUCCESS", "none", <<>>, 0)
    /\ wr' = IdleWriter
    /\ UNCHANGED <<data_dir_, snap, persistence_, persistence_enabled_, wal, wal_stream_, now, logged,
                   appends, rd, clients>>

\* getTransactions, lines 179-186: the lookup and the acquire load of count
R_Call(manager_id) ==
    /\ rd.pc = "idle"
    /\ IF manager_id \notin DOMAIN managers_ THEN
           /\ ret' = Ret("getTransactions", manager_id, DefaultRecord, "SUCCESS", "none",
                         <<>>, 0)
           /\ rd' = rd
       ELSE
           /\ rd' = [pc |-> "copy", manager_id |-> manager_id,
                     safe_count |-> managers_[manager_id].count]
           /\ ret' = ret
    /\ UNCHANGED <<data_dir_, snap, managers_, persistence_, persistence_enabled_, wal, wal_stream_, now,
                   logged, acked, appends, wr,
                   clients>>

\* getTransactions, lines 189-196: the copy of the first safe_count elements
R_Copy ==
    LET data == managers_[rd.manager_id]
        n == IF rd.safe_count < Len(data.transactions) THEN rd.safe_count
             ELSE Len(data.transactions)
    IN  /\ rd.pc = "copy"
        /\ ret' = Ret("getTransactions", rd.manager_id, DefaultRecord, "SUCCESS", "none",
                      SubSeq(data.transactions, 1, n), 0)
        /\ rd' = IdleReader
        /\ UNCHANGED <<data_dir_, snap, managers_, persistence_, persistence_enabled_, wal, wal_stream_,
                       now, logged, acked, appends, wr,
                   clients>>

NextConc ==
    \/ \E in \in ConcInputs : W_Call(in[1], in[2])
    \/ \E io \in (IF persistence_enabled_ /\ persistence_ THEN IoOutcomes ELSE {"ok"}) :
          W_Wal(io)
    \/ W_Push
    \/ W_Publish
    \/ \E m \in ManagerIds : R_Call(m)
    \/ R_Copy
    \/ \E b \in BOOLEAN : enablePersistence(b)
    \/ \E init_ok \in BOOLEAN : Restart(init_ok)
    \/ Tick

SpecConc == Init /\ [][NextConc]_vars

----------------------------------------------------------------------------
(* The HTTP server runs every request on a thread of its own               *)
(* (http_server.cpp, std::thread client_thread ... detach), so that         *)
(* appendTransaction and getTransactions run on several threads with no     *)
(* lock.  Here every operation on a shared container is split where another *)
(* thread can come in between: the two insertions of writeToWAL into the    *)
(* stream, operator[] on the map, push_back on the vector.                  *)

T3 == <<"w">>

RaceInputs ==
    { <<M1, Event(T1, I1, TYPE_IN, 5, 2000, <<"d">>, <<"n">>)>>,
      <<M1, Event(T2, I1, TYPE_OUT, 3, 4000, EMPTY, <<"n">>)>>,
      <<M1, Event(T3, I1, TYPE_IN, 7, 2000, EMPTY, <<"n">>)>>,
      <<M2, Event(T1, I1, TYPE_IN, 5, 2000, <<"d">>, <<"n">>)>> }

\* the events of a tenant whose append has returned success
Returned(manager_id) ==
    IF manager_id \in DOMAIN acked
    THEN { acked[manager_id][i].trans : i \in 1..Len(acked[manager_id]) }
    ELSE {}

\* appendTransaction, lines 92-133: validation and the duplicate scan
C_Call(t, manager_id, trans) ==
    LET v == Validate(manager_id, trans)
    IN  /\ clients[t].pc = "idle"
        /\ IF v # "SUCCESS" THEN
               /\ ret' = Ret("append", manager_id, trans, v, "none", <<>>, 0)
               /\ UNCHANGED <<clients, appends>>
           ELSE IF IsDuplicate(manager_id, trans) THEN
               /\ ret' = Ret("append", manager_id, trans, "DUPLICATE_TRANSACTION_ID",
                             "none", <<>>, 0)
               /\ UNCHANGED <<clients, appends>>
           ELSE
               /\ appends < MaxRaceAppends
               /\ appends' = appends + 1
               /\ clients' = [clients EXCEPT ![t] =
                     [IdleClient EXCEPT !.pc = "wal", !.manager_id = manager_id,
                                        !.trans = trans, !.after = Returned(manager_id)]]
               /\ ret' = ret
        /\ UNCHANGED <<data_dir_, snap, managers_, persistence_, persistence_enabled_, wal, wal_stream_,
                       now, logged, acked, wr, rd>>

\* writeToWAL, line 53: *wal_stream_ << line
C_WalLine(t) ==
    LET c == clients[t]
        line == serializeTransaction(getCurrentTimestamp(now), c.manager_id, c.trans)
    IN  /\ c.pc = "wal"
        /\ IF persistence_enabled_ /\ persistence_ /\ wal_stream_ = "good"
           THEN /\ wal' = wal \o line
                /\ clients' = [clients EXCEPT ![t].pc = "endl"]
           ELSE /\ wal' = wal
                /\ clients' = [clients EXCEPT ![t].pc = "map"]
        /\ UNCHANGED <<data_dir_, snap, managers_, persistence_, persistence_enabled_, wal_stream_, now,
                       logged, acked, appends, wr, rd, ret>>

\* writeToWAL, lines 53-54: << std::endl and flush()
C_WalEndl(t) ==
    /\ clients[t].pc = "endl"
    /\ wal' = wal \o <<NL>>
    /\ clients' = [clients EXCEPT ![t].pc = "map"]
    /\ UNCHANGED <<data_dir_, snap, managers_, persistence_, persistence_enabled_, wal_stream_, now,
                   logged, acked, appends, wr, rd, ret>>

\* appendTransaction, line 151: managers_[manager_id] looks the tenant up
C_Find(t) ==
    LET c == clients[t]
    IN  /\ c.pc = "map"
        /\ clients' = [clients EXCEPT ![t] =
              IF c.manager_id \in DOMAIN managers_
              THEN [c EXCEPT !.pc = "push", !.linked = TRUE]
              ELSE [c EXCEPT !.pc = "insert", !.seen = DOMAIN managers_]]
        /\ UNCHANGED <<data_dir_, snap, managers_, persistence_, persistence_enabled_, wal, wal_stream_,
                       now, logged, acked, appends, wr, rd, ret>>

\* a thread is using a ManagerData of the map
UsesNode(c) == c.pc \in {"push", "pushing", "publish", "copy"} /\ c.linked

\* appendTransaction, line 151: managers_[manager_id] links a new node for a
\* tenant it did not find.  The node is linked in front of the nodes the thread
\* saw when it looked: a node another thread linked in between is no longer
\* in the map (a lost update of the list head), and the threads that reference
\* such a node go on using it.
C_Insert(t) ==
    LET c == clients[t]
        kept == (DOMAIN managers_ \cap c.seen) \ {c.manager_id}
        gone == DOMAIN managers_ \ kept
    IN  /\ c.pc = "insert"
        /\ managers_' = [m \in kept \cup {c.manager_id} |->
                           IF m = c.manager_id
                           THEN [transactions |-> <<>>, count |-> 0, capacity |-> 0]
                           ELSE managers_[m]]
        /\ clients' = [u \in Clients |->
              IF u = t THEN [c EXCEPT !.pc = "push", !.linked = TRUE]
              ELSE IF UsesNode(clients[u]) /\ clients[u].manager_id \in gone
              THEN [clients[u] EXCEPT !.linked = FALSE,
                                      !.node = managers_[clients[u].manager_id].transactions]
              ELSE clients[u]]
        /\ UNCHANGED <<data_dir_, snap, persistence_, persistence_enabled_, wal, wal_stream_, now,
                       logged, acked, appends, wr, rd, ret>>

\* appendTransaction, line 152: push_back reads the end of the vector and, when
\* size() = capacity(), starts to move the elements to a new storage
C_PushBegin(t) ==
    LET c == clients[t]
        n == IF c.linked THEN Len(managers_[c.manager_id].transactions) ELSE 0
    IN  /\ c.pc = "push"
        /\ clients' = [clients EXCEPT ![t] =
              [c EXCEPT !.pc = "pushing", !.slot = n,
                        !.realloc = c.linked /\ n = managers_[c.manager_id].capacity]]
        /\ UNCHANGED <<data_dir_, snap, managers_, persistence_, persistence_enabled_, wal, wal_stream_,
                       now, logged, acked, appends, wr, rd, ret>>

\* the vector after a push_back that read `slot` as its size: the element is
\* constructed at that index and the size becomes slot + 1
StoreAt(seq, slot, trans) ==
    [i \in 1..(slot + 1) |->
        IF i = slot + 1 THEN trans
        ELSE IF i <= Len(seq) THEN seq[i]
        ELSE DefaultRecord]

\* appendTransaction, line 152: push_back constructs the element and stores the
\* new end (and the new storage)
C_PushEnd(t) ==
    LET c == clients[t]
    IN  /\ c.pc = "pushing"
        /\ managers_' =
              IF c.linked
              THEN [managers_ EXCEPT
                      ![c.manager_id].transactions = StoreAt(@, c.slot, c.trans),
                      ![c.manager_id].capacity =
                          IF c.realloc THEN GrowCapacity(c.slot) ELSE @]
              ELSE managers_
        /\ clients' = [clients EXCEPT ![t].pc = "publish", ![t].realloc = FALSE]
        /\ UNCHANGED <<data_dir_, snap, persistence_, persistence_enabled_, wal, wal_stream_, now,
                       logged, acked, appends, wr, rd, ret>>

\* appendTransaction, lines 156-167: count.fetch_add(1) and the return
C_Publish(t) ==
    LET c == clients[t]
    IN  /\ c.pc = "publish"
        /\ managers_' = IF c.linked THEN Publish(managers_, c.manager_id) ELSE managers_
        /\ acked' = GhostAppend(acked, c.manager_id,
                                [trans |-> c.trans, flushed |-> persistence_enabled_ /\ persistence_,
                                 after |-> c.after])
        /\ ret' = Ret("append", c.manager_id, c.trans, "SUCCESS", "none", <<>>, 0)
        /\ clients' = [clients EXCEPT ![t] = IdleClient]
        /\ UNCHANGED <<data_dir_, snap, persistence_, persistence_enabled_, wal, wal_stream_, now,
                       logged, appends, wr, rd>>

\* getTransactions, lines 179-186: the lookup and the acquire load of count
C_Read(t, manager_id) ==
    /\ clients[t].pc = "idle"
    /\ IF manager_id \notin DOMAIN managers_ THEN
           /\ ret' = Ret("getTransactions", manager_id, DefaultRecord, "SUCCESS", "none",
                         <<>>, 0)
           /\ clients' = clients
       ELSE
           /\ clients' = [clients EXCEPT ![t] =
                 [IdleClient EXCEPT !.pc = "copy", !.manager_id = manager_id,
                                    !.safe_count = managers_[manager_id].count]]
           /\ ret' = ret
    /\ UNCHANGED <<data_dir_, snap, managers_, persistence_, persistence_enabled_, wal, wal_stream_, now,
                   logged, acked, appends, wr, rd>>

\* an element read from a storage whose elements push_back is moving to a new
\* one: its strings have been moved from (and the storage may be freed)
MovedFrom(trans) ==
    [DefaultRecord EXCEPT !.quantity = trans.quantity, !.unit_price = trans.unit_price]

\* push_back of another thread is moving the elements of the vector t reads
Relocating(t) ==
    /\ clients[t].linked
    /\ \E u \in Clients \ {t} :
          /\ clients[u].pc = "pushing" /\ clients[u].realloc /\ clients[u].linked
          /\ clients[u].manager_id = clients[t].manager_id

\* what the copy loop of getTransactions can read: the elements, or, while the
\* storage is being moved, for each element either the element or what is
\* left of it
CopyOutcomes(t) ==
    LET c == clients[t]
        src == IF c.linked THEN managers_[c.manager_id].transactions ELSE c.node
        n == IF c.safe_count < Len(src) THEN c.safe_count ELSE Len(src)
    IN  IF Relocating(t)
        THEN { [i \in 1..n |-> IF g[i] THEN MovedFrom(src[i]) ELSE src[i]] :
                  g \in [1..n -> BOOLEAN] }
        ELSE { SubSeq(src, 1, n) }

\* getTransactions, lines 189-196: the copy of the first safe_count elements
C_Copy(t) ==
    /\ clients[t].pc = "copy"
    /\ \E result \in CopyOutcomes(t) :
          ret' = Ret("getTransactions", clients[t].manager_id, DefaultRecord, "SUCCESS",
                     "none", result, 0)
    /\ clients' = [clients EXCEPT ![t] = IdleClient]
    /\ UNCHANGED <<data_dir_, snap, managers_, persistence_, persistence_enabled_, wal, wal_stream_, now,
                   logged, acked, appends, wr, rd>>

NextRace ==
    \/ \E t \in Clients : \E in \in RaceInputs : C_Call(t, in[1], in[2])
    \/ \E t \in Clients : C_WalLine(t)
    \/ \E t \in Clients : C_WalEndl(t)
    \/ \E t \in Clients : C_Find(t)
    \/ \E t \in Clients : C_Insert(t)
    \/ \E t \in Clients : C_PushBegin(t)
    \/ \E t \in Clients : C_PushEnd(t)
    \/ \E t \in Clients : C_Publish(t)
    \/ \E t \in Clients : \E m \in ManagerIds : C_Read(t, m)
    \/ \E t \in Clients : C_Copy(t)

SpecRace == Init /\ [][NextRace]_vars

\* The threading the store is written for: the appends are serialized (they
\* all come from client 1) and a reader (client 2) runs concurrently.
NextSerial ==
    \/ \E in \in RaceInputs : C_Call(1, in[1], in[2])
    \/ C_WalLine(1)
    \/ C_WalEndl(1)
    \/ C_Find(1)
    \/ C_Insert(1)
    \/ C_PushBegin(1)
    \/ C_PushEnd(1)
    \/ C_Publish(1)
    \/ \E m \in ManagerIds : C_Read(2, m)
    \/ C_Copy(2)

SpecSerial == Init /\ [][NextSerial]_vars

----------------------------------------------------------------------------
(* Vocabulary of the claims *)

\* the step is a call of appendTransaction, with the arguments ret'.manager_id
\* and ret'.trans (every call sets ret; a call that gets to the WAL counts in
\* appends; a rejected call that repeats the last one changes nothing at all)
AppendStep == ret'.op = "append" /\ (ret' # ret \/ appends' # appends)

\* the step is a restart in which PersistenceManager's constructor succeeds
RestartStep == Restart(TRUE)

\* trans_id tid is the trans_id of a published event of tenant m
HasPublished(m, tid) ==
    /\ m \in DOMAIN managers_
    /\ \E i \in 1..Len(managers_[m].transactions) :
          i <= managers_[m].count /\ managers_[m].transactions[i].trans_id = tid

\* the call appendTransaction(m, e) gets as far as the WAL write
ReachesWal(m, e) ==
    /\ m # EMPTY /\ e.trans_id # EMPTY /\ e.item_id # EMPTY
    /\ e.type \in {TYPE_IN, TYPE_OUT} /\ e.quantity > 0
    /\ ~HasPublished(m, e.trans_id)
    /\ persistence_enabled_ /\ persistence_

\* an event without its timestamp (WAL-assigned on recovery) and without the
\* record's own manager_id member (the tenant is the key of the map)
CallerFields(e) == [e EXCEPT !.timestamp = EMPTY, !.manager_id = EMPTY]

CallerFieldsOf(seq) == [i \in 1..Len(seq) |-> CallerFields(seq[i])]

NoSideEffect == UNCHANGED <<managers_, wal, wal_stream_>>

----------------------------------------------------------------------------
(* Claims about appendTransaction *)

\* C2 (as stated): whenever the WAL write of an appendTransaction fails (the
\* line is not written and flushed), the call returns WAL_WRITE_FAILED and
\* managers_ is as before: no count or sequence changes, no ledger is created.
C2_WalFailureAborts ==
    [][( /\ AppendStep
         /\ ReachesWal(ret'.manager_id, ret'.trans)
         /\ ~writeToWAL(ret'.io, ret'.manager_id, ret'.trans).flushed )
       => (ret'.code = "WAL_WRITE_FAILED" /\ managers_' = managers_)]_vars

\* C3 (as stated): appendTransaction of any event whose trans_id is already
\* published for the tenant returns DUPLICATE_TRANSACTION_ID, writes nothing to
\* the WAL and leaves the tenant's count unchanged.
C3_DuplicateAlways ==
    [][(AppendStep /\ HasPublished(ret'.manager_id, ret'.trans.trans_id))
          => /\ ret'.code = "DUPLICATE_TRANSACTION_ID"
             /\ wal' = wal
             /\ TransactionCount(managers_', ret'.manager_id) = TransactionCount(managers_, ret'.manager_id)]_vars

\* C3 (amended): appendTransaction of an event that passes the field validation
\* and whose trans_id is already published for the tenant returns
\* DUPLICATE_TRANSACTION_ID; an event with a published trans_id that fails the
\* validation is rejected with the validation's error instead; either way
\* nothing is written to the WAL and the tenant's count is unchanged.
C3_DuplicateRejected ==
    [][(AppendStep /\ HasPublished(ret'.manager_id, ret'.trans.trans_id))
          => /\ ret'.code = IF /\ ret'.trans.item_id # EMPTY
                               /\ ret'.trans.type \in {TYPE_IN, TYPE_OUT}
                               /\ ret'.trans.quantity > 0
                            THEN "DUPLICATE_TRANSACTION_ID"
                            ELSE IF ret'.trans.item_id # EMPTY /\ ret'.trans.type \notin {TYPE_IN, TYPE_OUT}
                            THEN "INVALID_TRANSACTION_TYPE"
                            ELSE "INVALID_PARAMETER"
             /\ wal' = wal
             /\ TransactionCount(managers_', ret'.manager_id) = TransactionCount(managers_, ret'.manager_id)]_vars

\* C3 witness: a valid event with an already published trans_id but other
\* content was rejected as a duplicate
C3_Witness ==
    /\ ret.op = "append"
    /\ ret.code = "DUPLICATE_TRANSACTION_ID"
    /\ ret.manager_id \in DOMAIN managers_
    /\ \E i \in 1..managers_[ret.manager_id].count :
          /\ managers_[ret.manager_id].transactions[i].trans_id = ret.trans.trans_id
          /\ managers_[ret.manager_id].transactions[i] # ret.trans

\* C4: a successful appendTransaction of a valid event whose trans_id is not yet
\* published increases the tenant's getTransactionCount by exactly 1, and the
\* event is the last element of getTransactions.
C4_AppendAddsOne ==
    [][( /\ AppendStep
         /\ ret'.manager_id # EMPTY /\ ret'.trans.trans_id # EMPTY /\ ret'.trans.item_id # EMPTY
         /\ ret'.trans.type \in {TYPE_IN, TYPE_OUT} /\ ret'.trans.quantity > 0
         /\ ~HasPublished(ret'.manager_id, ret'.trans.trans_id)
         /\ ret'.code = "SUCCESS" )
          => /\ TransactionCount(managers_', ret'.manager_id) = TransactionCount(managers_, ret'.manager_id) + 1
             /\ Transactions(managers_', ret'.manager_id) = Append(Transactions(managers_, ret'.manager_id), ret'.trans)]_vars

\* C4 witness: a successful append to a ledger that already held an event
C4_Witness ==
    /\ ret.op = "append"
    /\ ret.code = "SUCCESS"
    /\ TransactionCount(managers_, ret.manager_id) = 2
    /\ Transactions(managers_, ret.manager_id)[2] = ret.trans

\* C5 (as stated): an empty tenant_id, trans_id or item_id or a quantity <= 0
\* gives INVALID_PARAMETER, a type other than in/out gives
\* INVALID_TRANSACTION_TYPE, and nothing changes.
C5_ValidationAsStated ==
    [][AppendStep
          => /\ ( ret'.manager_id = EMPTY \/ ret'.trans.trans_id = EMPTY \/ ret'.trans.item_id = EMPTY
                    \/ ret'.trans.quantity <= 0 )
                => (ret'.code = "INVALID_PARAMETER" /\ NoSideEffect)
             /\ ret'.trans.type \notin {TYPE_IN, TYPE_OUT}
                => (ret'.code = "INVALID_TRANSACTION_TYPE" /\ NoSideEffect)]_vars

\* C5 (amended): the checks are made in the order ids, type, quantity and the
\* first that fails decides the error: an empty tenant_id, trans_id or item_id
\* gives INVALID_PARAMETER; otherwise a type other than in/out gives
\* INVALID_TRANSACTION_TYPE; otherwise a quantity <= 0 gives INVALID_PARAMETER;
\* in each case no WAL line is written, no ledger is created and no count or
\* sequence changes.
C5_ValidationInOrder ==
    [][AppendStep
          => LET ids == ret'.manager_id = EMPTY \/ ret'.trans.trans_id = EMPTY \/ ret'.trans.item_id = EMPTY
                 ty == ret'.trans.type \notin {TYPE_IN, TYPE_OUT}
                 qty == ret'.trans.quantity <= 0
             IN  /\ ids => ret'.code = "INVALID_PARAMETER"
                 /\ (~ids /\ ty) => ret'.code = "INVALID_TRANSACTION_TYPE"
                 /\ (~ids /\ ~ty /\ qty) => ret'.code = "INVALID_PARAMETER"
                 /\ (ids \/ ty \/ qty) => NoSideEffect]_vars

\* C5 witness: an event with a bad type and a quantity of 0 was rejected for
\* its type, on a store that already holds events
C5_Witness ==
    /\ ret.op = "append"
    /\ ret.code = "INVALID_TRANSACTION_TYPE"
    /\ ret.trans.quantity <= 0
    /\ DOMAIN managers_ # {}

----------------------------------------------------------------------------
(* Claims about restart recovery *)

\* C7 (as stated, in the case most favourable to it): when every event of
\* every ledger was appended with its WAL line written and flushed, and the
\* process is restarted with a PersistenceManager that starts, every tenant's
\* getTransactions returns the same events (caller-supplied fields) in order.
C7_RecoveryFidelity ==
    [][( /\ RestartStep
         /\ \A m \in DOMAIN logged : \A i \in 1..Len(logged[m]) : logged[m][i] )
       => \A m \in DOMAIN managers_ :
             CallerFieldsOf(Transactions(managers_', m))
               = CallerFieldsOf(Transactions(managers_, m))]_vars

\* C8 (as stated, in the case most favourable to it): after a restart in
\* which the PersistenceManager starts, every event whose append returned
\* success after its WAL line was written and flushed is in its tenant's ledger.
C8_AckedSurvivesRestart ==
    (ret.op = "restart" /\ persistence_)
    => \A m \in DOMAIN acked : \A i \in 1..Len(acked[m]) :
          acked[m][i].flushed
          => \E j \in 1..Len(Transactions(managers_, m)) :
                CallerFields(Transactions(managers_, m)[j]) = CallerFields(acked[m][i].trans)

----------------------------------------------------------------------------
(* serializeTransaction / deserializeTransaction on their own: an event is   *)
(* serialized into an empty WAL file and the line is parsed back             *)

RoundTripEvents ==
    { Event(T1, I1, ty, q, price, doc, nt) :
        ty \in {TYPE_IN, TYPE_OUT}, q \in {0, 1, 12}, price \in {0, 2000, 1234},
        doc \in {EMPTY, <<"d">>}, nt \in {EMPTY, <<"n">>, <<"a", BAR, "b">>} }

InitRoundTrip ==
    /\ managers_ = NoManagers
    /\ wr = IdleWriter
    /\ rd = IdleReader
    /\ clients = IdleClients
    /\ data_dir_ = FreshDir
    /\ snap = IdleSnap
    /\ persistence_ = TRUE
    /\ persistence_enabled_ = TRUE
    /\ wal = <<>>
    /\ wal_stream_ = "good"
    /\ now \in 0..MaxClock
    /\ logged = <<>>
    /\ acked = <<>>
    /\ appends = 0
    /\ \E m \in ManagerIds, e \in RoundTripEvents :
          ret = Ret("input", m, e, "SUCCESS", "none", <<>>, 0)

\* line = serializeTransaction(manager_id, trans)
Serialize ==
    /\ ret.op = "input"
    /\ wal' = serializeTransaction(getCurrentTimestamp(now), ret.manager_id, ret.trans)
    /\ ret' = [ret EXCEPT !.op = "serialized"]
    /\ UNCHANGED <<data_dir_, snap, managers_, persistence_, persistence_enabled_, wal_stream_, now,
                   logged, acked, appends, threads>>

\* deserializeTransaction(line, manager_id, trans)
Deserialize ==
    /\ ret.op = "serialized"
    /\ ret' = [ret EXCEPT !.op = "deserialized", !.result = deserializeTransaction(wal)]
    /\ UNCHANGED <<data_dir_, snap, managers_, persistence_, persistence_enabled_, wal, wal_stream_, now,
                   logged, acked, appends, threads>>

NextRoundTrip == Serialize \/ Deserialize

SpecRoundTrip == InitRoundTrip /\ [][NextRoundTrip]_vars

HasBar(str) == \E i \in 1..Len(str) : str[i] = BAR

\* C9 (as stated, in the case most favourable to it): for every event that
\* appendTransaction accepts, whose text fields hold no '|' and whose
\* unit_price has at most two decimals, deserializing its serialized line
\* succeeds and gives back the tenant_id and the 14 other caller-supplied
\* fields, also when note or document_no is empty.
C9_RoundTrip ==
    ( /\ ret.op = "deserialized"
      /\ Validate(ret.manager_id, ret.trans) = "SUCCESS"
      /\ ~HasBar(ret.trans.note)
      /\ ret.trans.unit_price % 10 = 0 )
    => /\ ret.result.ok
       /\ ret.result.manager_id = ret.manager_id
       /\ CallerFields(ret.result.trans) = CallerFields(ret.trans)

----------------------------------------------------------------------------
(* recoverFromWAL on its own, over WAL files with well-formed and malformed  *)
(* lines                                                                     *)

MaxLines == 3

TS0 == getCurrentTimestamp(0)
TS1 == getCurrentTimestamp(1)

FifteenFields == <<"f", BAR, "f", BAR, "f", BAR, "f", BAR, "f", BAR, "f", BAR, "f", BAR,
                   "f", BAR, "f", BAR, "f", BAR, "f", BAR, "f", BAR, "f", BAR, "f", BAR, "f">>

WalLines ==
    { serializeTransaction(TS0, M1, Event(T1, I1, TYPE_IN, 5, 2000, <<"d">>, <<"n">>)),
      serializeTransaction(TS1, M1, Event(T2, I1, TYPE_OUT, 3, 4000, EMPTY, <<"n">>)),
      serializeTransaction(TS1, M2, Event(T1, I1, TYPE_IN, 12, 2000, EMPTY, <<"n">>)),
      \* 15 fields: a truncated record
      FifteenFields,
      \* 15 fields as parsed: the line of an event with an empty note
      serializeTransaction(TS0, M1, Event(T2, I1, TYPE_IN, 5, 2000, <<"d">>, EMPTY)),
      \* 17 fields: a note holding the delimiter
      serializeTransaction(TS0, M1, Event(T2, I1, TYPE_IN, 5, 2000, <<"d">>, <<"a", BAR, "b">>)),
      \* 16 fields, quantity not numeric
      JoinBar(<<TS0, M1, T2, I1, <<"n">>, TYPE_IN, <<"z">>, <<"2", ".", "0", "0">>,
                <<"c">>, <<"m">>, <<"u">>, <<"p">>, <<"q">>, <<"w">>, EMPTY, <<"n">>>>),
      \* 16 fields, unit_price not numeric
      JoinBar(<<TS0, M1, T2, I1, <<"n">>, TYPE_IN, <<"5">>, <<"z">>,
                <<"c">>, <<"m">>, <<"u">>, <<"p">>, <<"q">>, <<"w">>, EMPTY, <<"n">>>>),
      \* 16 fields, a quantity that starts with a number: std::stoi reads the 5
      JoinBar(<<TS1, M1, T2, I1, <<"n">>, TYPE_IN, <<"5", "z">>, <<"2", ".", "0", "0">>,
                <<"c">>, <<"m">>, <<"u">>, <<"p">>, <<"q">>, <<"w">>, EMPTY, <<"n">>>>),
      \* an empty line
      EMPTY }

RECURSIVE FileOf(_)
FileOf(lines) ==
    IF lines = <<>> THEN <<>> ELSE Head(lines) \o <<NL>> \o FileOf(Tail(lines))

WalFiles ==
    { FileOf(ls) : ls \in UNION { [1..n -> WalLines] : n \in 0..MaxLines } }

InitRecover ==
    /\ managers_ = NoManagers
    /\ wr = IdleWriter
    /\ rd = IdleReader
    /\ clients = IdleClients
    /\ data_dir_ = FreshDir
    /\ snap = IdleSnap
    /\ persistence_ = TRUE
    /\ persistence_enabled_ = TRUE
    /\ wal \in WalFiles
    /\ wal_stream_ = "good"
    /\ now = 0
    /\ logged = <<>>
    /\ acked = <<>>
    /\ appends = 0
    /\ ret = Ret("init", EMPTY, DefaultRecord, "SUCCESS", "none", <<>>, 0)

\* auto recovered_data = persistence_->recoverFromWAL()
RecoverFromWAL ==
    /\ ret.op = "init"
    /\ ret' = [ret EXCEPT !.op = "recoverFromWAL", !.result = recoverFromWAL(wal)]
    /\ UNCHANGED <<data_dir_, snap, managers_, persistence_, persistence_enabled_, wal, wal_stream_, now,
                   logged, acked, appends, threads>>

NextRecover == RecoverFromWAL

SpecRecover == InitRecover /\ [][NextRecover]_vars

\* the lines of a file, as text between line ends
LinesOf(file) == GetlineAll(file, NL)

\* a line of exactly 16 '|'-separated fields whose quantity and unit_price are
\* numeric: std::stoi and std::stod find a number at the start of the field
WellFormed(line) ==
    LET f == GetlineAll(line, BAR)
    IN  Len(f) = 16 /\ stoi(f[7]).ok /\ stod(f[8]).ok

\* the events of the well-formed lines of tenant m, in file order
WellFormedEventsOf(file, m) ==
    LET Mine(line) == WellFormed(line) /\ GetlineAll(line, BAR)[2] = m
        mine == SelectSeq(LinesOf(file), Mine)
    IN  [i \in 1..Len(mine) |-> deserializeTransaction(mine[i]).trans]

----------------------------------------------------------------------------
(* Claims about the published prefix, under the step-by-step specification *)

\* C1 (as stated): in every reachable state, every event of every tenant at an
\* index below count was pushed after its WAL line had been written and
\* flushed, and so is every event a reader is about to copy.
C1_PublishedAfterWal ==
    /\ \A m \in DOMAIN managers_ : \A i \in 1..Len(managers_[m].transactions) :
          i <= managers_[m].count => logged[m][i]
    /\ rd.pc = "copy"
       => \A i \in 1..Len(managers_[rd.manager_id].transactions) :
             i <= rd.safe_count => logged[rd.manager_id][i]

----------------------------------------------------------------------------
(* The constructor on its own, over WAL files whose lines parse but may hold *)
(* events that validateDataIntegrity rejects                                 *)

StartupLines ==
    { serializeTransaction(TS0, M1, Event(T1, I1, TYPE_IN, 5, 2000, <<"d">>, <<"n">>)),
      serializeTransaction(TS1, M1, Event(T2, I1, TYPE_OUT, 3, 4000, EMPTY, <<"n">>)),
      serializeTransaction(TS1, M2, Event(T1, I1, TYPE_IN, 12, 2000, EMPTY, <<"n">>)),
      \* quantity 0
      serializeTransaction(TS0, M2, Event(T2, I1, TYPE_IN, 0, 2000, EMPTY, <<"n">>)),
      \* empty trans_id
      serializeTransaction(TS0, M1, Event(EMPTY, I1, TYPE_IN, 5, 2000, EMPTY, <<"n">>)),
      \* a type that is neither "in" nor "out"
      serializeTransaction(TS1, M2, Event(T2, I1, BADTYPE, 5, 2000, EMPTY, <<"n">>)),
      \* a line that does not parse
      FifteenFields }

StartupFiles ==
    { FileOf(ls) : ls \in UNION { [1..n -> StartupLines] : n \in 0..MaxLines } }

InitStartup ==
    /\ managers_ = NoManagers
    /\ wr = IdleWriter
    /\ rd = IdleReader
    /\ clients = IdleClients
    /\ data_dir_ = FreshDir
    /\ snap = IdleSnap
    /\ persistence_ = TRUE
    /\ persistence_enabled_ = TRUE
    /\ wal \in StartupFiles
    /\ wal_stream_ = "good"
    /\ now = 0
    /\ logged = <<>>
    /\ acked = <<>>
    /\ appends = 0
    /\ ret = Ret("init", EMPTY, DefaultRecord, "SUCCESS", "none", <<>>, 0)

NextStartup == \E init_ok \in BOOLEAN : Restart(init_ok)

SpecStartup == InitStartup /\ [][NextStartup]_vars

\* event i of a recovered sequence breaks a rule of the integrity validation:
\* a required field is missing or out of range, or its timestamp is before
\* the timestamp of the event in front of it
Violates(seq, i) ==
    \/ seq[i].trans_id = EMPTY
    \/ seq[i].item_id = EMPTY
    \/ seq[i].type \notin {TYPE_IN, TYPE_OUT}
    \/ seq[i].quantity <= 0
    \/ i > 1 /\ StrLess(seq[i].timestamp, seq[i-1].timestamp)

\* C11: after construction over a WAL (persistence initialised), if any
\* recovered event of any tenant violates the integrity validation the store
\* has no tenant at all; otherwise every recovered tenant has a ledger holding
\* its recovered sequence with count equal to the sequence length.
C11_AllOrNothing ==
    (ret.op = "restart" /\ persistence_)
    => LET data == recoverFromWAL(wal)
       IN  IF \E m \in DOMAIN data : \E i \in 1..Len(data[m]) : Violates(data[m], i)
           THEN managers_ = NoManagers
           ELSE /\ DOMAIN managers_ = DOMAIN data
                /\ \A m \in DOMAIN data :
                      /\ managers_[m].transactions = data[m]
                      /\ managers_[m].count = Len(data[m])

\* C11 witness: one tenant's recovered events are all valid, another tenant has
\* a violating event, and the store started empty
C11_Witness ==
    /\ ret.op = "restart" /\ persistence_
    /\ managers_ = NoManagers
    /\ LET data == recoverFromWAL(wal)
       IN  /\ DOMAIN data = {M1, M2}
           /\ \A i \in 1..Len(data[M1]) : ~Violates(data[M1], i)
           /\ \E i \in 1..Len(data[M2]) : Violates(data[M2], i)

----------------------------------------------------------------------------
(* Claims about readers that run while an append is in progress *)

\* client t returns from getTransactions with the elements it copied
CopyStep(t) == clients[t].pc = "copy" /\ clients'[t].pc = "idle"

\* the published elements of a ledger
PublishedIndices(mgrs, m) ==
    { i \in 1..Len(mgrs[m].transactions) : i <= mgrs[m].count }

\* C12 (as stated): an event published at index i of a tenant's ledger stays
\* at index i unchanged in every later state, and every getTransactions that
\* returns an element for index i returns that event, so that an earlier
\* result is a prefix of a later one.
C12_PublishedImmutable ==
    [][/\ \A m \in DOMAIN managers_ : \A i \in PublishedIndices(managers_, m) :
             /\ m \in DOMAIN managers_'
             /\ i \in PublishedIndices(managers_', m)
             /\ managers_'[m].transactions[i] = managers_[m].transactions[i]
       /\ \A t \in Clients :
             (CopyStep(t) /\ clients[t].linked)
             => \A i \in 1..Len(ret'.result) :
                   ret'.result[i] = managers_[clients[t].manager_id].transactions[i]]_vars

\* C13 (as stated): when getTransactions returns a result that contains an
\* event B, every event A of the same tenant whose append had returned
\* success before the append of B was invoked is in the result at a smaller
\* index.
C13_AppendOrder ==
    [][\A t \in Clients :
          (CopyStep(t) /\ clients[t].manager_id \in DOMAIN acked)
          => LET hist == acked[clients[t].manager_id]
                 res == ret'.result
             IN  \A b \in 1..Len(hist) : \A k \in 1..Len(res) :
                    res[k] = hist[b].trans
                    => \A a \in hist[b].after : \E j \in 1..(k - 1) : res[j] = a]_vars

\* C14 (as stated): no reader is copying published elements of a tenant's
\* vector while a push_back on that vector is moving its elements to a new
\* storage.
C14_NoRelocationUnderReader ==
    \A t \in Clients :
        (clients[t].pc = "copy" /\ clients[t].safe_count > 0) => ~Relocating(t)

----------------------------------------------------------------------------
(* Claims about appends that run concurrently *)

\* no client thread is inside a call
AllIdle == \A t \in Clients : clients[t].pc = "idle"

\* client u looks a tenant up in the map in this step
LookupStep(u) ==
    \/ clients[u].pc = "idle" /\ clients'[u].pc \in {"wal", "copy"}
    \/ clients[u].pc = "map" /\ clients'[u].pc # "map"

\* C15 (as stated): an insertion of a new tenant into the map excludes every
\* other insertion, and no other thread looks a tenant up while an insertion
\* is in progress.
C15_InsertInCriticalSection ==
    /\ [](\A t \in Clients : \A u \in Clients \ {t} :
             ~(clients[t].pc = "insert" /\ clients[u].pc = "insert"))
    /\ [][\A t \in Clients : \A u \in Clients \ {t} :
             clients[t].pc = "insert" => ~LookupStep(u)]_vars

\* C16 (as stated): of the appends of one trans_id to one tenant at most one
\* returns success, and the published part of a ledger never holds two events
\* with the same trans_id.
C16_OneWinnerPerTransId ==
    /\ \A m \in DOMAIN acked : \A i \in 1..Len(acked[m]) : \A j \in 1..Len(acked[m]) :
          i # j => acked[m][i].trans.trans_id # acked[m][j].trans.trans_id
    /\ \A m \in DOMAIN managers_ :
          \A i \in PublishedIndices(managers_, m) : \A j \in PublishedIndices(managers_, m) :
             i # j => managers_[m].transactions[i].trans_id #
                      managers_[m].transactions[j].trans_id

\* the trans_ids of the appends of a tenant that returned success are pairwise
\* distinct
DistinctReturned(m) ==
    \A i \in 1..Len(acked[m]) : \A j \in 1..Len(acked[m]) :
        i # j => acked[m][i].trans.trans_id # acked[m][j].trans.trans_id

\* C17 (as stated): once every call has returned, a tenant whose N successful
\* appends had pairwise distinct trans_ids has exactly N events in
\* getTransactions, one per appended event.
C17_NoLostAppend ==
    AllIdle
    => \A m \in DOMAIN acked :
          DistinctReturned(m)
          => /\ Len(Transactions(managers_, m)) = Len(acked[m])
             /\ \A i \in 1..Len(acked[m]) :
                   \E k \in 1..Len(Transactions(managers_, m)) :
                      Transactions(managers_, m)[k] = acked[m][i].trans

\* the WAL holds a line that parses to event e of tenant m
WalHasLine(m, e) ==
    \E i \in 1..Len(LinesOf(wal)) :
        LET d == deserializeTransaction(LinesOf(wal)[i])
        IN  d.ok /\ d.manager_id = m /\ CallerFields(d.trans) = CallerFields(e)

\* C18 (as stated): once every call has returned, if the successful appends
\* were to different tenants (one each), every such tenant's ledger holds
\* exactly its own event and the WAL holds a parseable line for each event.
C18_TenantsIndependent ==
    (AllIdle /\ \A m \in DOMAIN acked : Len(acked[m]) = 1)
    => \A m \in DOMAIN acked :
          /\ Transactions(managers_, m) = <<acked[m][1].trans>>
          /\ WalHasLine(m, acked[m][1].trans)


----------------------------------------------------------------------------
(* Two processes on one data directory.  The second process is seen only    *)
(* through what it does to the directory: it constructs a PersistenceManager *)
(* (which opens current.wal for appending and asks for the lock), appends   *)
(* WAL lines through its own appendTransaction, and exits.                  *)

\* PersistenceManager::PersistenceManager in a second process: the directory
\* exists and current.wal opens, so nothing throws; acquireFileLock's result
\* is discarded, so construction completes whether or not the lock was got
OtherStart ==
    /\ ~data_dir_.other
    /\ data_dir_' = [data_dir_ EXCEPT !.other = TRUE,
                                      !.lock = IF @ = NOBODY THEN OTHER_PROCESS ELSE @]
    /\ UNCHANGED <<managers_, persistence_, persistence_enabled_, wal, wal_stream_, now,
                   logged, acked, appends, threads, snap, ret>>

\* appendTransaction in the second process, for an event its own ledger
\* accepts: writeToWAL appends the line to the shared current.wal
OtherAppend(manager_id, trans) ==
    /\ data_dir_.other
    /\ Validate(manager_id, trans) = "SUCCESS"
    /\ appends < MaxAppends
    /\ appends' = appends + 1
    /\ wal' = wal \o serializeTransaction(getCurrentTimestamp(now), manager_id, trans)
                  \o <<NL>>
    /\ UNCHANGED <<managers_, persistence_, persistence_enabled_, wal_stream_, now,
                   logged, acked, threads, data_dir_, snap, ret>>

\* the second process ends: ~PersistenceManager (or the kernel) closes its
\* descriptors, which drops the lock if it held it
OtherExit ==
    /\ data_dir_.other
    /\ data_dir_' = [data_dir_ EXCEPT !.other = FALSE,
                                      !.lock = IF @ = OTHER_PROCESS THEN NOBODY ELSE @]
    /\ UNCHANGED <<managers_, persistence_, persistence_enabled_, wal, wal_stream_, now,
                   logged, acked, appends, threads, snap, ret>>

NextLock ==
    \/ \E in \in ConcInputs : appendTransaction(in[1], in[2], "ok")
    \/ \E init_ok \in BOOLEAN : Restart(init_ok)
    \/ OtherStart
    \/ \E in \in ConcInputs : OtherAppend(in[1], in[2])
    \/ OtherExit

SpecLock == Init /\ [][NextLock]_vars

\* the processes that have a PersistenceManager open on the data directory
Holders ==
    (IF persistence_ THEN {THIS_PROCESS} ELSE {})
      \cup (IF data_dir_.other THEN {OTHER_PROCESS} ELSE {})

\* C19: at most one PersistenceManager holds the data directory at a time:
\* while one process holds the lock on .lock, no PersistenceManager is
\* constructed on the directory by another process (the construction fails),
\* so the directory never has two processes with current.wal open for appending.
C19_OneHolder ==
    /\ Cardinality(Holders) <= 1
    /\ Holders \subseteq {data_dir_.lock}


----------------------------------------------------------------------------
(* createSnapshot, step by step.  A file is the sequence of the lines that   *)
(* reached it, with (ghost) the data the call that wrote it was given.  The  *)
(* files are keyed by the second generateSnapshotFilename puts in the name.  *)

\* the tenants of `data` in the order the dump visits them: the iteration order
\* of the unordered_map, some fixed enumeration of its keys
DumpOrder(ms) ==
    CHOOSE order \in [1..Cardinality(ms) -> ms] : \A m \in ms : \E i \in DOMAIN order : order[i] = m

\* the lines createSnapshot writes for `data`: the two header lines, then one
\* JSON line per tenant with all its transactions
SnapshotLines(data) ==
    LET order == DumpOrder(DOMAIN data)
    IN  <<"# Snapshot created at", "# Format">>
          \o [i \in 1..Len(order) |->
                [manager_id |-> order[i], transactions |-> data[order[i]]]]

WithFile(files, name, f) ==
    [n \in DOMAIN files \cup {name} |-> IF n = name THEN f ELSE files[n]]

WithoutFile(files, name) == [n \in DOMAIN files \ {name} |-> files[n]]

\* what the stream insertions of createSnapshot can meet; the stream has no
\* exception mask, so a failed write sets its state and nothing else
SnapshotIo == {"ok", "stream_error"}

\* MemoryDatabase::createSnapshot copies every ledger, then
\* PersistenceManager::createSnapshot names the file and opens <name>.tmp,
\* which creates it or truncates it.  (When the file cannot be opened the call
\* returns false and nothing has changed.)
S_Open ==
    LET all_data == [m \in DOMAIN managers_ |-> managers_[m].transactions]
    IN  /\ snap.pc = "idle"
        /\ persistence_enabled_ /\ persistence_
        /\ snap' = [pc |-> "write", snapshot_file |-> now, data |-> all_data,
                    next |-> 1, file |-> "good"]
        /\ data_dir_' = [data_dir_ EXCEPT
                           !.tmp = WithFile(@, now, [lines |-> <<>>, data |-> all_data])]
        /\ UNCHANGED <<managers_, persistence_, persistence_enabled_, wal, wal_stream_,
                       now, logged, acked, appends, threads, ret>>

\* one `file << ... << std::endl`: the line reaches the temporary file unless the
\* stream has failed or fails now; the stream's state is not looked at
S_Write(io) ==
    LET lines == SnapshotLines(snap.data)
        name == snap.snapshot_file
        good == snap.file = "good" /\ io = "ok"
    IN  /\ snap.pc = "write"
        /\ snap' = [snap EXCEPT !.next = @ + 1,
                                !.file = IF good THEN "good" ELSE "failed",
                                !.pc = IF snap.next = Len(lines) THEN "close" ELSE "write"]
        /\ data_dir_' =
             IF good THEN [data_dir_ EXCEPT !.tmp[name].lines = Append(@, lines[snap.next])]
             ELSE data_dir_
        /\ UNCHANGED <<managers_, persistence_, persistence_enabled_, wal, wal_stream_,
                       now, logged, acked, appends, threads, ret>>

\* file.flush(); file.close(); std::rename(temp_file, snapshot_file): the
\* temporary file, whatever reached it, takes the canonical name (replacing a
\* file of that name); when rename fails the temporary file stays
S_Rename(renamed) ==
    LET name == snap.snapshot_file
    IN  /\ snap.pc = "close"
        /\ snap' = IdleSnap
        /\ data_dir_' =
             IF renamed
             THEN [data_dir_ EXCEPT !.snapshots = WithFile(@, name, data_dir_.tmp[name]),
                                    !.tmp = WithoutFile(@, name)]
             ELSE data_dir_
        /\ UNCHANGED <<managers_, persistence_, persistence_enabled_, wal, wal_stream_,
                       now, logged, acked, appends, threads, ret>>

\* Restart is the crash: it can come between any two steps of createSnapshot
\* the appends that fill the store between snapshots: one event for each tenant
SnapshotInputs == ManagerIds \X {Event(T1, I1, TYPE_IN, 5, 2000, <<"d">>, <<"n">>)}

NextSnapshot ==
    \/ \E in \in SnapshotInputs : appendTransaction(in[1], in[2], "ok")
    \/ S_Open
    \/ \E io \in SnapshotIo : S_Write(io)
    \/ \E renamed \in BOOLEAN : S_Rename(renamed)
    \/ Restart(TRUE)

SpecSnapshot == Init /\ [][NextSnapshot]_vars

\* a file holds a complete dump: every line of the data it was written for
Complete(f) == f.lines = SnapshotLines(f.data)

\* PersistenceManager::getSnapshotFiles: the names that start with snapshot_
\* and end with .json, which the .tmp names do not
getSnapshotFiles == DOMAIN data_dir_.snapshots

\* C20: createSnapshot is crash-safe: in every state, a crash at any step
\* included, every file under a canonical snapshot name holds a complete dump;
\* partially written content exists only under the .tmp name.
C20_CanonicalSnapshotsComplete ==
    \A name \in getSnapshotFiles : Complete(data_dir_.snapshots[name])


----------------------------------------------------------------------------
(* Errors of every kind in one run: the store is constructed over a WAL that *)
(* may fail the integrity validation, then appends are rejected by the       *)
(* validation, fail in the WAL or succeed, and the process restarts.         *)

NextErrors ==
    \/ \E in \in ConcInputs : \E io \in IoChoices(in[1], in[2]) :
          appendTransaction(in[1], in[2], io)
    \/ \E init_ok \in BOOLEAN : Restart(init_ok)

\* the WAL files the store is first constructed over: at most MaxErrorLines lines
MaxErrorLines == 1

ErrorFiles ==
    { FileOf(ls) : ls \in UNION { [1..n -> StartupLines] : n \in 0..MaxErrorLines } }

InitErrors ==
    /\ managers_ = NoManagers
    /\ wr = IdleWriter
    /\ rd = IdleReader
    /\ clients = IdleClients
    /\ data_dir_ = FreshDir
    /\ snap = IdleSnap
    /\ persistence_ = TRUE
    /\ persistence_enabled_ = TRUE
    /\ wal \in ErrorFiles
    /\ wal_stream_ = "good"
    /\ now = 0
    /\ logged = <<>>
    /\ acked = <<>>
    /\ appends = 0
    /\ ret = Ret("init", EMPTY, DefaultRecord, "SUCCESS", "none", <<>>, 0)

SpecErrors == InitErrors /\ [][NextErrors]_vars

\* ErrorCode: the codes appendTransaction returns in its Result
ResultCodes ==
    {"SUCCESS", "INVALID_PARAMETER", "INVALID_TRANSACTION_TYPE",
     "DUPLICATE_TRANSACTION_ID", "WAL_WRITE_FAILED", "UNKNOWN_ERROR"}

\* the WAL on disk recovers to a non-empty data set that fails the validation
IntegrityViolation ==
    LET data == recoverFromWAL(wal)
    IN  DOMAIN data # {} /\ ~validateDataIntegrity(data)

\* C21: no validation, durability or integrity error terminates the process:
\* every appendTransaction returns one of the typed results, and every
\* construction, over a WAL that fails the integrity validation included,
\* ends with a running store (empty, or holding what was recovered) and never
\* in std::abort.
C21_NoErrorTerminates ==
    /\ ret.code # "ABORTED"
    /\ ret.op = "append" => ret.code \in ResultCodes
    /\ ret.op = "restart" => managers_ \in {NoManagers, Recovered(wal)}

\* a construction over a WAL that fails the integrity validation has ended
\* with an empty running store
C21_Witness ==
    /\ ret.op = "restart" /\ ret.code = "SUCCESS"
    /\ persistence_ /\ IntegrityViolation
    /\ managers_ = NoManagers


\* MemoryDatabase::hasManager
hasManager(manager_id) == manager_id \in DOMAIN managers_

\* C22: the set of tenants known to the store only grows during a process
\* lifetime: a tenant for which hasManager is true keeps its ledger in every
\* later state, and a ledger appears only for the tenant of an append that got
\* past the WAL write.
C22_TenantsOnlyGrow ==
    [][ /\ \A m \in ManagerIds : hasManager(m) => hasManager(m)'
        /\ \A m \in DOMAIN managers_' \ DOMAIN managers_ :
              \E t \in Clients : clients[t].pc \in {"map", "insert"} /\ clients[t].manager_id = m
      ]_vars


\* C23: reads are idempotent: a getTransactions call that follows a
\* getTransactions call for the same tenant, with no append (and no other
\* call that returns something) between the two, returns the same sequence.
C23_ReadsIdempotent ==
    [][( /\ ret.op = "getTransactions"
         /\ ret'.op = "getTransactions"
         /\ ret'.manager_id = ret.manager_id )
       => ret'.result = ret.result]_vars

\* a read has returned a tenant's non-empty ledger
C23_Witness ==
    /\ ret.op = "getTransactions"
    /\ ret.result # <<>>
    /\ ret.result = Transactions(managers_, ret.manager_id)


----------------------------------------------------------------------------
(* The derived tables: calculateInventory, buildItemSummaryMap and           *)
(* buildDocumentSummaryMap as functions of a tenant's published events.      *)
(* `int` keeps its 32 bits; a `double` is the exact fraction num/den of      *)
(* hundredths (rounding is not modelled).                                    *)

INT_MIN == -INT_MAX - 1

\* int + int: signed overflow is undefined behaviour; the sum wraps modulo 2^32,
\* which is what the add instruction of the build leaves in the register
Add32(a, b) ==
    IF b > 0 /\ a > INT_MAX - b THEN (a - INT_MAX) + (b - INT_MAX) - 2
    ELSE IF b < 0 /\ a < INT_MIN - b THEN (a + INT_MAX) + (b + INT_MAX) + 2
    ELSE a + b

Abs(n) == IF n < 0 THEN -n ELSE n

RECURSIVE GCD(_, _)
GCD(a, b) == IF b = 0 THEN a ELSE GCD(b, a % b)

\* the double num/den in lowest terms
Ratio(num, den) ==
    LET g == GCD(Abs(num), Abs(den))
    IN  IF den < 0 THEN [num |-> -num \div g, den |-> -den \div g]
        ELSE [num |-> num \div g, den |-> den \div g]

Zero == [num |-> 0, den |-> 1]

Front(seq) == SubSeq(seq, 1, Len(seq) - 1)

Last(seq) == seq[Len(seq)]

\* mutant of InboundAverage: the plain mean of the old average and the price
InboundAverage_Unweighted(record, trans, quantity) ==
    IF quantity > 0
    THEN Ratio(record.avg_price.num + trans.unit_price * record.avg_price.den,
               2 * record.avg_price.den)
    ELSE record.avg_price

\* calculateInventory, the inbound branch: total_value over the new quantity
\* when that is positive
InboundAverage(record, trans, quantity) ==
    IF quantity > 0
    THEN Ratio(record.quantity * record.avg_price.num
                 + trans.quantity * trans.unit_price * record.avg_price.den,
               record.avg_price.den * quantity)
    ELSE record.avg_price

\* calculateInventory, the first loop: inventory_map after the transactions
RECURSIVE inventory_map(_)
inventory_map(transactions) ==
    IF transactions = <<>> THEN <<>>
    ELSE LET prev == inventory_map(Front(transactions))
             trans == Last(transactions)
             key == <<trans.warehouse_id, trans.item_id>>
             record == IF key \in DOMAIN prev THEN prev[key]
                       ELSE [item_id |-> trans.item_id, warehouse_id |-> trans.warehouse_id,
                             quantity |-> 0, avg_price |-> Zero]
             quantity == IF trans.type = TYPE_IN THEN Add32(record.quantity, trans.quantity)
                         ELSE Add32(record.quantity, -trans.quantity)
             updated == [record EXCEPT
                           !.quantity = quantity,
                           !.avg_price = IF trans.type = TYPE_IN
                                         THEN InboundAverage(record, trans, quantity)
                                         ELSE @]
         IN  [k \in DOMAIN prev \cup {key} |-> IF k = key THEN updated ELSE prev[k]]

\* calculateInventory, the second loop: per warehouse, the records with quantity > 0
InventoryOf(transactions) ==
    LET map == inventory_map(transactions)
        kept == { k \in DOMAIN map : map[k].quantity > 0 }
    IN  [w \in { k[1] : k \in kept } |-> { map[k] : k \in { j \in kept : j[1] = w } }]

\* MemoryDatabase::calculateInventory
calculateInventory(manager_id) ==
    /\ ret' = Ret("calculateInventory", manager_id, DefaultRecord, "SUCCESS", "none",
                  InventoryOf(Transactions(managers_, manager_id)), 0)
    /\ UNCHANGED <<data_dir_, snap, managers_, persistence_, persistence_enabled_, wal,
                   wal_stream_, now, logged, acked, appends, threads>>


\* mutant of IsLater: "trans.timestamp >= summary.last_updated"
IsLater_OrEqual(timestamp, last_updated) == ~StrLess(timestamp, last_updated)

\* buildItemSummaryMap: "trans.timestamp > summary.last_updated"
IsLater(timestamp, last_updated) == StrLess(last_updated, timestamp)

\* MemoryDatabase::buildItemSummaryMap
RECURSIVE buildItemSummaryMap(_)
buildItemSummaryMap(transactions) ==
    IF transactions = <<>> THEN <<>>
    ELSE LET prev == buildItemSummaryMap(Front(transactions))
             trans == Last(transactions)
             summary == IF trans.item_id \in DOMAIN prev THEN prev[trans.item_id]
                        ELSE [item_id |-> trans.item_id, item_name |-> trans.item_name,
                              category |-> trans.category, model |-> trans.model,
                              unit |-> trans.unit, latest_price |-> trans.unit_price,
                              total_quantity |-> 0, last_updated |-> trans.timestamp]
             counted == [summary EXCEPT
                           !.total_quantity = IF trans.type = TYPE_IN
                                              THEN Add32(@, trans.quantity)
                                              ELSE Add32(@, -trans.quantity)]
             updated == IF IsLater(trans.timestamp, summary.last_updated)
                        THEN [counted EXCEPT
                                !.latest_price = trans.unit_price,
                                !.last_updated = trans.timestamp,
                                !.item_name = trans.item_name,
                                !.category = trans.category,
                                !.model = trans.model,
                                !.unit = trans.unit]
                        ELSE counted
         IN  [k \in DOMAIN prev \cup {trans.item_id} |->
                IF k = trans.item_id THEN updated ELSE prev[k]]

\* MemoryDatabase::getCurrentItems: the summaries with total_quantity > 0
getCurrentItems(manager_id) ==
    LET item_map == buildItemSummaryMap(Transactions(managers_, manager_id))
    IN  /\ ret' = Ret("getCurrentItems", manager_id, DefaultRecord, "SUCCESS", "none",
                      { item_map[k] : k \in { j \in DOMAIN item_map :
                                                 item_map[j].total_quantity > 0 } }, 0)
        /\ UNCHANGED <<data_dir_, snap, managers_, persistence_, persistence_enabled_, wal,
                       wal_stream_, now, logged, acked, appends, threads>>

\* mutant of EarliestTimestamp: the summary keeps the latest timestamp seen
EarliestTimestamp_Latest(timestamp, seen) ==
    IF StrLess(seen, timestamp) THEN timestamp ELSE seen

\* buildDocumentSummaryMap: "if (trans.timestamp < summary.timestamp)"
EarliestTimestamp(timestamp, seen) ==
    IF StrLess(timestamp, seen) THEN timestamp ELSE seen

\* MemoryDatabase::buildDocumentSummaryMap; total_amount in hundredths
RECURSIVE buildDocumentSummaryMap(_)
buildDocumentSummaryMap(transactions) ==
    IF transactions = <<>> THEN <<>>
    ELSE LET prev == buildDocumentSummaryMap(Front(transactions))
             trans == Last(transactions)
             summary == IF trans.document_no \in DOMAIN prev THEN prev[trans.document_no]
                        ELSE [document_no |-> trans.document_no, type |-> trans.type,
                              partner_id |-> trans.partner_id,
                              partner_name |-> trans.partner_name,
                              manager_id |-> trans.manager_id,
                              timestamp |-> trans.timestamp,
                              total_amount |-> 0, item_count |-> 0]
             updated == [summary EXCEPT
                           !.total_amount = @ + trans.quantity * trans.unit_price,
                           !.item_count = @ + 1,
                           !.timestamp = EarliestTimestamp(trans.timestamp, @)]
         IN  IF trans.document_no = EMPTY THEN prev
             ELSE [k \in DOMAIN prev \cup {trans.document_no} |->
                     IF k = trans.document_no THEN updated ELSE prev[k]]

\* MemoryDatabase::getDocuments
getDocuments(manager_id) ==
    LET doc_map == buildDocumentSummaryMap(Transactions(managers_, manager_id))
    IN  /\ ret' = Ret("getDocuments", manager_id, DefaultRecord, "SUCCESS", "none",
                      { doc_map[k] : k \in DOMAIN doc_map }, 0)
        /\ UNCHANGED <<data_dir_, snap, managers_, persistence_, persistence_enabled_, wal,
                       wal_stream_, now, logged, acked, appends, threads>>

\* the events the derived tables are computed over: two items, two warehouses,
\* two documents and events without one, equal and different timestamps, and
\* two events with the largest quantity an int holds
W1 == <<"w">>
W2 == <<"v">>
I2 == <<"j">>
D1 == <<"d">>
D2 == <<"e">>

Posting(tid, iid, name, ty, q, price, w, doc, ts) ==
    [Event(tid, iid, ty, q, price, doc, <<"n">>) EXCEPT
        !.item_name = name, !.warehouse_id = w, !.timestamp = ts]

SmallPostings ==
    { Posting(<<"1">>, I1, <<"n">>, TYPE_IN, 10, 200, W1, D1, TS0),
      Posting(<<"2">>, I1, <<"k">>, TYPE_IN, 10, 400, W1, D1, TS0),
      Posting(<<"3">>, I1, <<"n">>, TYPE_OUT, 25, 400, W1, EMPTY, TS1),
      Posting(<<"4">>, I1, <<"k">>, TYPE_IN, 5, 300, W2, D2, TS1),
      Posting(<<"5">>, I2, <<"n">>, TYPE_OUT, 3, 100, W1, D2, TS0),
      Posting(<<"6">>, I2, <<"j">>, TYPE_IN, 20, 100, W1, D1, TS1) }

LargePostings ==
    { Posting(<<"7">>, I1, <<"n">>, TYPE_OUT, INT_MAX, 0, W1, EMPTY, TS0),
      Posting(<<"8">>, I1, <<"n">>, TYPE_OUT, INT_MAX, 0, W1, D1, TS0),
      Posting(<<"9">>, I1, <<"n">>, TYPE_IN, INT_MAX, 0, W1, D1, TS1) }

MaxPostings == 3

\* the ledgers of up to MaxPostings events with distinct trans_ids
LedgersOver(events) ==
    { seq \in UNION { [1..n -> events] : n \in 0..MaxPostings } :
        \A i, j \in DOMAIN seq : i # j => seq[i] # seq[j] }

\* a store that holds one tenant's ledger, every event published
InitDerived ==
    /\ \E transactions \in LedgersOver(SmallPostings) \cup LedgersOver(LargePostings) :
          managers_ = [m \in {M1} |-> [transactions |-> transactions,
                                       count |-> Len(transactions),
                                       capacity |-> Len(transactions)]]
    /\ wr = IdleWriter
    /\ rd = IdleReader
    /\ clients = IdleClients
    /\ data_dir_ = FreshDir
    /\ snap = IdleSnap
    /\ persistence_ = TRUE
    /\ persistence_enabled_ = TRUE
    /\ wal = <<>>
    /\ wal_stream_ = "good"
    /\ now = 0
    /\ logged = <<>>
    /\ acked = <<>>
    /\ appends = 0
    /\ ret = Ret("init", EMPTY, DefaultRecord, "SUCCESS", "none", <<>>, 0)

NextDerived ==
    \/ calculateInventory(M1)
    \/ getCurrentItems(M1)
    \/ getDocuments(M1)

SpecDerived == InitDerived /\ [][NextDerived]_vars


\* the position of key in inventory_map after the first k events of the ledger
PositionAfter(transactions, k, key) ==
    LET map == inventory_map(SubSeq(transactions, 1, k))
    IN  IF key \in DOMAIN map THEN map[key] ELSE [quantity |-> 0, avg_price |-> Zero]

\* C24: calculateInventory folds the events per (warehouse_id, item_id): an
\* inbound event that leaves a positive quantity sets the average to
\* (old_qty*old_avg + qty*unit_price) / (old_qty+qty), an inbound event that
\* does not leaves the average as it was, an outbound event subtracts its
\* quantity and leaves the average as it was; and "in 10 @ 2.00, in 10 @ 4.00"
\* yields quantity 20 at 3.00.
C24_WeightedAverage ==
    ret.op = "calculateInventory" =>
        LET transactions == Transactions(managers_, ret.manager_id)
        IN  /\ \A k \in 1..Len(transactions) :
                  LET trans == transactions[k]
                      key == <<trans.warehouse_id, trans.item_id>>
                      old == PositionAfter(transactions, k - 1, key)
                      new == PositionAfter(transactions, k, key)
                  IN  IF trans.type = TYPE_IN
                      THEN IF new.quantity > 0
                           THEN /\ new.quantity = old.quantity + trans.quantity
                                /\ new.avg_price.num * old.avg_price.den * new.quantity
                                     = new.avg_price.den
                                         * (old.quantity * old.avg_price.num
                                              + trans.quantity * trans.unit_price
                                                  * old.avg_price.den)
                           ELSE new.avg_price = old.avg_price
                      ELSE /\ new.avg_price = old.avg_price
                           /\ old.quantity >= INT_MIN + trans.quantity
                                 => new.quantity = old.quantity - trans.quantity
            /\ ( /\ Len(transactions) = 2
                 /\ \A k \in 1..2 : /\ transactions[k].type = TYPE_IN
                                    /\ transactions[k].quantity = 10
                                    /\ transactions[k].item_id = I1
                                    /\ transactions[k].warehouse_id = W1
                 /\ transactions[1].unit_price = 200
                 /\ transactions[2].unit_price = 400 )
               => ret.result = [w \in {W1} |->
                                  {[item_id |-> I1, warehouse_id |-> W1, quantity |-> 20,
                                    avg_price |-> [num |-> 300, den |-> 1]]}]

\* calculateInventory has returned for the ledger "in 10 @ 2.00, in 10 @ 4.00"
C24_Witness ==
    /\ ret.op = "calculateInventory"
    /\ Len(Transactions(managers_, M1)) = 2
    /\ Transactions(managers_, M1)[1].unit_price = 200
    /\ Transactions(managers_, M1)[2].unit_price = 400
    /\ W1 \in DOMAIN ret.result
    /\ \E r \in ret.result[W1] : r.quantity = 20 /\ r.avg_price = [num |-> 300, den |-> 1]


\* the net quantity of a (warehouse_id, item_id) over the ledger, inbound minus
\* outbound, as an unbounded integer kept in two parts: <<n \div 2^16, n % 2^16>>
\* summed separately
RECURSIVE NetParts(_, _)
NetParts(transactions, key) ==
    IF transactions = <<>> THEN <<0, 0>>
    ELSE LET rest == NetParts(Front(transactions), key)
             trans == Last(transactions)
             sign == IF trans.type = TYPE_IN THEN 1 ELSE -1
         IN  IF <<trans.warehouse_id, trans.item_id>> # key THEN rest
             ELSE <<rest[1] + sign * (trans.quantity \div 65536),
                    rest[2] + sign * (trans.quantity % 65536)>>

NetIsPositive(transactions, key) ==
    LET parts == NetParts(transactions, key)
        hi == parts[1] + (parts[2] \div 65536)
        lo == parts[2] % 65536
    IN  hi > 0 \/ (hi = 0 /\ lo > 0)

\* C25: every position calculateInventory returns has quantity > 0 and is
\* listed under its own warehouse_id, and a (warehouse_id, item_id) whose net
\* quantity over the ledger is zero or negative is not in the output.
C25_OnlyPositivePositions ==
    ret.op = "calculateInventory" =>
        LET transactions == Transactions(managers_, ret.manager_id)
        IN  /\ \A w \in DOMAIN ret.result : \A r \in ret.result[w] :
                  r.quantity > 0 /\ r.warehouse_id = w
            /\ \A k \in 1..Len(transactions) :
                  LET key == <<transactions[k].warehouse_id, transactions[k].item_id>>
                  IN  ~NetIsPositive(transactions, key)
                         => \A w \in DOMAIN ret.result : \A r \in ret.result[w] :
                               <<r.warehouse_id, r.item_id>> # key


\* the event of item_id whose fields a summary must show: the first event of
\* the item, in ledger order, that carries the item's greatest timestamp
LatestOf(transactions, item_id) ==
    CHOOSE i \in 1..Len(transactions) :
        /\ transactions[i].item_id = item_id
        /\ \A j \in 1..Len(transactions) :
              transactions[j].item_id = item_id
                 => /\ ~StrLess(transactions[i].timestamp, transactions[j].timestamp)
                    /\ (transactions[j].timestamp = transactions[i].timestamp => i <= j)

\* C26: buildItemSummaryMap takes an item's name, category, model, unit and
\* price only from an event whose timestamp is strictly greater than the stored
\* last_updated: the summary shows the fields of the first-seen event among
\* those with the item's greatest timestamp, so of two events with identical
\* timestamps the earlier one in the ledger is retained.
C26_FirstSeenWinsOnTies ==
    ret.op = "getCurrentItems" =>
        LET transactions == Transactions(managers_, ret.manager_id)
            item_map == buildItemSummaryMap(transactions)
        IN  /\ DOMAIN item_map = { transactions[k].item_id : k \in 1..Len(transactions) }
            /\ \A item_id \in DOMAIN item_map :
                  LET e == transactions[LatestOf(transactions, item_id)]
                      summary == item_map[item_id]
                  IN  /\ summary.item_name = e.item_name
                      /\ summary.category = e.category
                      /\ summary.model = e.model
                      /\ summary.unit = e.unit
                      /\ summary.latest_price = e.unit_price
                      /\ summary.last_updated = e.timestamp
            /\ ret.result \subseteq { item_map[k] : k \in DOMAIN item_map }

\* getCurrentItems has returned for a ledger with two events of one item that
\* have the same timestamp and different names and prices: the summary shows
\* the first one's
C26_Witness ==
    /\ ret.op = "getCurrentItems"
    /\ LET transactions == Transactions(managers_, M1)
       IN  /\ Len(transactions) = 2
           /\ transactions[1].item_id = transactions[2].item_id
           /\ transactions[1].timestamp = transactions[2].timestamp
           /\ transactions[1].item_name # transactions[2].item_name
           /\ transactions[1].unit_price # transactions[2].unit_price
           /\ \E summary \in ret.result :
                 /\ summary.item_name = transactions[1].item_name
                 /\ summary.latest_price = transactions[1].unit_price


\* the sum of quantity * unit_price over the events at the indices in `at`
RECURSIVE AmountOver(_, _)
AmountOver(transactions, at) ==
    IF at = {} THEN 0
    ELSE LET i == CHOOSE i \in at : TRUE
         IN  transactions[i].quantity * transactions[i].unit_price
               + AmountOver(transactions, at \ {i})

----------------------------------------------------------------------------
(* Claims about the WAL write *)

\* C28: writeToWAL returns success only if the serialized record was appended
\* to the WAL as one complete line and flushed: in every appendTransaction that
\* gets as far as the WAL write, a true return of writeToWAL means the file has
\* grown by exactly the record's line.
C28_SuccessOnlyIfFlushed ==
    [][( /\ AppendStep
         /\ ReachesWal(ret'.manager_id, ret'.trans)
         /\ writeToWAL(ret'.io, ret'.manager_id, ret'.trans).ok )
       => /\ writeToWAL(ret'.io, ret'.manager_id, ret'.trans).flushed
          /\ wal' = wal \o serializeTransaction(getCurrentTimestamp(now),
                                                ret'.manager_id, ret'.trans) \o <<NL>>]_vars


\* C29: no phantom events: an appendTransaction that returns an error leaves
\* the WAL as it was, so that no restart can reconstruct an event whose append
\* was reported as failed.
C29_NoPhantomEvents ==
    [][(AppendStep /\ ret'.code # "SUCCESS") => wal' = wal]_vars


----------------------------------------------------------------------------
(* The constructor over WAL files that may also hold a line whose manager_id *)
(* field is empty                                                            *)

IntegrityLines ==
    StartupLines
      \cup { serializeTransaction(TS0, EMPTY, Event(T1, I1, TYPE_IN, 5, 2000, <<"d">>, <<"n">>)) }

IntegrityFiles ==
    { FileOf(ls) : ls \in UNION { [1..n -> IntegrityLines] : n \in 0..MaxLines } }

InitIntegrity ==
    /\ managers_ = NoManagers
    /\ wr = IdleWriter
    /\ rd = IdleReader
    /\ clients = IdleClients
    /\ data_dir_ = FreshDir
    /\ snap = IdleSnap
    /\ persistence_ = TRUE
    /\ persistence_enabled_ = TRUE
    /\ wal \in IntegrityFiles
    /\ wal_stream_ = "good"
    /\ now = 0
    /\ logged = <<>>
    /\ acked = <<>>
    /\ appends = 0
    /\ ret = Ret("init", EMPTY, DefaultRecord, "SUCCESS", "none", <<>>, 0)

SpecIntegrity == InitIntegrity /\ [][NextStartup]_vars

\* C30: validateDataIntegrity accepts a recovered data set if and only if, for
\* every tenant, the timestamps are non-decreasing along the sequence and every
\* event passes the field validation of a live appendTransaction (non-empty
\* tenant id, trans_id and item_id, type "in" or "out", quantity > 0): after a
\* construction that recovered something, the store holds ledgers exactly when
\* the recovered data meets these rules.
C30_IntegrityIffLiveRules ==
    LET data == recoverFromWAL(wal)
    IN  (ret.op = "restart" /\ persistence_ /\ DOMAIN data # {})
           => ( (DOMAIN managers_ # {})
                  <=> \A m \in DOMAIN data :
                         /\ \A i \in 2..Len(data[m]) :
                               ~StrLess(data[m][i].timestamp, data[m][i - 1].timestamp)
                         /\ \A i \in 1..Len(data[m]) :
                               Validate(m, data[m][i]) = "SUCCESS" )

----------------------------------------------------------------------------
(* Recovery over a data directory that holds rotated WAL segments.  A write  *)
(* rotates the WAL once current.wal is larger than wal_size_limit_ (100 MB), *)
(* which no run of the model reaches by appending; the directories are built *)
(* from a history of writes and the write after which the WAL was rotated.   *)

\* PersistenceManager::rotateWALFile: the active segment is kept under the
\* name generateWALFilename() and a new, empty current.wal is started
rotateWALFile(dir, file, clock) ==
    [dir |-> [dir EXCEPT !.segments = WithFile(@, generateWALFilename(clock), file)],
     wal |-> <<>>]

MaxSegmentWrites == 3

\* one successful write of the past: the clock, the tenant, the event
SegmentWrite == (0..MaxClock) \X ManagerIds
                  \X { Event(T1, I1, TYPE_IN, 5, 2000, <<"d">>, <<"n">>),
                       Event(T2, I1, TYPE_OUT, 3, 4000, EMPTY, <<"n">>) }

\* histories appendTransaction allows: the clock never goes back, and a
\* trans_id is used once per tenant
SegmentHistories ==
    { h \in UNION { [1..n -> SegmentWrite] : n \in 0..MaxSegmentWrites } :
        /\ \A i, j \in 1..Len(h) : i < j => h[i][1] <= h[j][1]
        /\ \A i, j \in 1..Len(h) :
              (i # j /\ h[i][2] = h[j][2]) => h[i][3].trans_id # h[j][3].trans_id }

\* the WAL lines of writes from..to of a history
SegmentBytes(h, from, to) ==
    FileOf([i \in 1..(to - from + 1) |->
              serializeTransaction(getCurrentTimestamp(h[from + i - 1][1]),
                                   h[from + i - 1][2], h[from + i - 1][3])])

\* the events of tenant m in a history, in append order
RECURSIVE AppendedTo(_, _)
AppendedTo(h, m) ==
    IF h = <<>> THEN <<>>
    ELSE IF Last(h)[2] = m THEN Append(AppendedTo(Front(h), m), Last(h)[3])
    ELSE AppendedTo(Front(h), m)

TenantsOf(h) == { h[i][2] : i \in 1..Len(h) }

\* a store that ran the history h and rotated its WAL in write number cut
\* (0: never)
InitSegments ==
    \E h \in SegmentHistories : \E cut \in 0..Len(h) :
        LET rotated == rotateWALFile(FreshDir, SegmentBytes(h, 1, cut),
                                     IF cut = 0 THEN 0 ELSE h[cut][1])
        IN  /\ data_dir_ = IF cut = 0 THEN FreshDir ELSE rotated.dir
            /\ wal = SegmentBytes(h, cut + 1, Len(h))
            /\ managers_ = Restore([m \in TenantsOf(h) |-> AppendedTo(h, m)])
            /\ logged = [m \in TenantsOf(h) |-> [i \in 1..Len(AppendedTo(h, m)) |-> TRUE]]
            /\ acked = [m \in TenantsOf(h) |->
                          [i \in 1..Len(AppendedTo(h, m)) |->
                             [trans |-> AppendedTo(h, m)[i], flushed |-> TRUE]]]
            /\ appends = 0
            /\ now = IF h = <<>> THEN 0 ELSE Last(h)[1]
            /\ wr = IdleWriter
            /\ rd = IdleReader
            /\ clients = IdleClients
            /\ snap = IdleSnap
            /\ persistence_ = TRUE
            /\ persistence_enabled_ = TRUE
            /\ wal_stream_ = "good"
            /\ ret = Ret("init", EMPTY, DefaultRecord, "SUCCESS", "none", <<>>, 0)

NextSegments ==
    \/ \E init_ok \in BOOLEAN : Restart(init_ok)
    \/ \E m \in ManagerIds : getTransactions(m)

SpecSegments == InitSegments /\ [][NextSegments]_vars

\* the events whose append returned success, per tenant, in append order
AckedEvents(m) == [i \in 1..Len(acked[m]) |-> CallerFields(acked[m][i].trans)]

\* C31: recovery replays the WAL segments oldest first: after a restart in
\* which the PersistenceManager starts, every tenant's recovered sequence is
\* the sequence of its appends in append order, rotated segments before
\* current.wal.
C31_SegmentsInAppendOrder ==
    (ret.op = "restart" /\ persistence_)
    => \A m \in DOMAIN acked :
          CallerFieldsOf(Transactions(managers_, m)) = AckedEvents(m)

----------------------------------------------------------------------------
(* Claims about construction and the duplicate check across restarts *)

\* C32: construction takes the data-directory lock before it opens or creates
\* current.wal, and recovers before it serves: at every step, each process
\* that has current.wal open holds the lock, and a restart in which the
\* PersistenceManager starts leaves the ledgers recovery built from the WAL.
C32_ConstructionOrder ==
    [][ /\ \A p \in Holders' : data_dir_'.lock = p
        /\ RestartStep => managers_' = Recovered(wal) ]_vars

\* the store holds exactly what a successful recovery built from the WAL, and
\* tid is the trans_id of an event recovered for tenant m
RecoveredId(m, tid) ==
    LET data == recoverFromWAL(wal)
    IN  /\ persistence_
        /\ validateDataIntegrity(data)
        /\ managers_ = Recovered(wal)
        /\ m \in DOMAIN data
        /\ \E i \in 1..Len(data[m]) : data[m][i].trans_id = tid

\* C33 (as stated): after a successful recovery, appendTransaction with the
\* trans_id of any event recovered from the WAL for the same tenant returns
\* DUPLICATE_TRANSACTION_ID.
C33_RecoveredIdAlwaysDuplicate ==
    [][(AppendStep /\ RecoveredId(ret'.manager_id, ret'.trans.trans_id))
          => ret'.code = "DUPLICATE_TRANSACTION_ID"]_vars

\* C33 (amended): after a successful recovery, appendTransaction of an event
\* that passes the field validation and has the trans_id of an event recovered
\* from the WAL for the same tenant returns DUPLICATE_TRANSACTION_ID and
\* changes neither the ledgers nor the WAL.
C33_RecoveredIdDuplicate ==
    [][( /\ AppendStep
         /\ RecoveredId(ret'.manager_id, ret'.trans.trans_id)
         /\ ret'.trans.item_id # EMPTY
         /\ ret'.trans.type \in {TYPE_IN, TYPE_OUT}
         /\ ret'.trans.quantity > 0 )
          => (ret'.code = "DUPLICATE_TRANSACTION_ID" /\ NoSideEffect)]_vars

\* C33 witness: on a store that holds exactly the recovered events, a valid
\* event with a recovered trans_id was rejected as a duplicate
C33_Witness ==
    /\ ret.op = "append"
    /\ ret.code = "DUPLICATE_TRANSACTION_ID"
    /\ RecoveredId(ret.manager_id, ret.trans.trans_id)

\* C34: with writers serialized per tenant, no tenant's published sequence
\* holds two events with the same trans_id, during a run and after restarts.
C34_UniqueTransIds ==
    \A m \in DOMAIN managers_ :
        \A i, j \in 1..managers_[m].count :
            i # j => managers_[m].transactions[i].trans_id
                       # managers_[m].transactions[j].trans_id

\* the published events of tenant m with trans_id tid
PublishedWith(mgrs, m, tid) ==
    IF m \in DOMAIN mgrs
    THEN { i \in 1..mgrs[m].count : mgrs[m].transactions[i].trans_id = tid }
    ELSE {}

\* C35: the duplicate check looks at the target tenant only: appending a valid
\* event whose trans_id is published under another tenant but not under the
\* target, with a WAL write that does not fail, succeeds, and afterwards the
\* trans_id is published once under the target and still under the other tenant.
C35_DuplicateCheckPerTenant ==
    [][( /\ AppendStep
         /\ ret'.manager_id # EMPTY /\ ret'.trans.trans_id # EMPTY /\ ret'.trans.item_id # EMPTY
         /\ ret'.trans.type \in {TYPE_IN, TYPE_OUT} /\ ret'.trans.quantity > 0
         /\ ret'.io \notin {"throw_before", "throw_after"}
         /\ PublishedWith(managers_, ret'.manager_id, ret'.trans.trans_id) = {}
         /\ \E other \in DOMAIN managers_ \ {ret'.manager_id} :
               PublishedWith(managers_, other, ret'.trans.trans_id) # {} )
       => /\ ret'.code = "SUCCESS"
          /\ Cardinality(PublishedWith(managers_', ret'.manager_id, ret'.trans.trans_id)) = 1
          /\ \A other \in DOMAIN managers_ \ {ret'.manager_id} :
                PublishedWith(managers_', other, ret'.trans.trans_id)
                  = PublishedWith(managers_, other, ret'.trans.trans_id)]_vars

\* C35 witness: an append succeeded and its trans_id is now published once
\* under its tenant and once under another tenant
C35_Witness ==
    /\ ret.op = "append"
    /\ ret.code = "SUCCESS"
    /\ Cardinality(PublishedWith(managers_, ret.manager_id, ret.trans.trans_id)) = 1
    /\ \E other \in DOMAIN managers_ \ {ret.manager_id} :
          Cardinality(PublishedWith(managers_, other, ret.trans.trans_id)) = 1

----------------------------------------------------------------------------
(* A run after a degraded start: the constructor found a WAL that failed the *)
(* integrity validation, logged it and left managers_ empty, with the        *)
(* PersistenceManager open on the same current.wal.                          *)

\* the WAL files over which construction ends in a degraded start
DegradedFiles ==
    { f \in StartupFiles :
        DOMAIN recoverFromWAL(f) # {} /\ ~validateDataIntegrity(recoverFromWAL(f)) }

InitDegraded ==
    /\ data_dir_ = FreshDir
    /\ wal \in DegradedFiles
    /\ managers_ = Recovered(wal)
    /\ wr = IdleWriter
    /\ rd = IdleReader
    /\ clients = IdleClients
    /\ snap = IdleSnap
    /\ persistence_ = TRUE
    /\ persistence_enabled_ = TRUE
    /\ wal_stream_ = "good"
    /\ now = 0
    /\ logged = <<>>
    /\ acked = <<>>
    /\ appends = 0
    /\ ret = Ret("restart", EMPTY, DefaultRecord, "SUCCESS", "none", <<>>, 0)

NextDegraded ==
    \/ \E in \in ConcInputs : appendTransaction(in[1], in[2], "ok")
    \/ Restart(TRUE)

SpecDegraded == InitDegraded /\ [][NextDegraded]_vars

\* C36: the events appended and acknowledged in a run that began with a
\* degraded start are returned by getTransactions after the next restart:
\* a restart leaves, for every tenant, each event acknowledged so far among
\* the tenant's published events.
C36_DegradedRunIsDurable ==
    [][Restart(TRUE)
         => \A m \in DOMAIN acked :
               \A i \in 1..Len(acked[m]) :
                  \E j \in 1..Len(Transactions(managers_', m)) :
                     CallerFields(Transactions(managers_', m)[j])
                       = CallerFields(acked[m][i].trans)]_vars

----------------------------------------------------------------------------
(* Appends under a wall clock that can be set back.  getCurrentTimestamp     *)
(* reads std::chrono::system_clock, which is not steady: an NTP step or an   *)
(* operator changing the time moves it backwards.                            *)

\* system_clock is set back
ClockSetBack ==
    /\ now > 0
    /\ now' = now - 1
    /\ UNCHANGED <<data_dir_, snap, managers_, persistence_, persistence_enabled_, wal, wal_stream_,
                   logged, acked, appends, threads, ret>>

NextClock ==
    \/ \E in \in ConcInputs : appendTransaction(in[1], in[2], "ok")
    \/ Tick
    \/ ClockSetBack
    \/ Restart(TRUE)

SpecClock == Init /\ [][NextClock]_vars

\* C37: a WAL that holds only lines written by successful appends passes
\* validateDataIntegrity, and a restart over it does not leave a tenant with
\* acknowledged events without its ledger.
C37_OwnWalValidates ==
    /\ validateDataIntegrity(recoverFromWAL(wal))
    /\ ret.op = "restart" => \A m \in DOMAIN acked : m \in DOMAIN managers_

----------------------------------------------------------------------------
(* createSnapshot on one thread while a writer thread is inside              *)
(* appendTransaction: the writer's steps are those of SpecConc, the          *)
(* snapshot's those of SpecSnapshot.                                         *)

NextSnapshotRace ==
    \/ \E in \in ConcInputs : W_Call(in[1], in[2])
    \/ W_Wal("ok")
    \/ W_Push
    \/ W_Publish
    \/ S_Open
    \/ S_Write("ok")
    \/ S_Rename(TRUE)

SpecSnapshotRace == Init /\ [][NextSnapshotRace]_vars

\* the published prefix [0, count) of every ledger
PublishedPrefixes(mgrs) ==
    [m \in DOMAIN mgrs |-> SubSeq(mgrs[m].transactions, 1, mgrs[m].count)]

\* C38: the data a snapshot is written from is, for every tenant, the
\* published prefix [0, count) at the moment createSnapshot copies the
\* ledgers; an event that was pushed but is not yet published is not in it.
C38_SnapshotOfPublishedPrefix ==
    [][(snap.pc = "idle" /\ snap'.pc = "write")
          => snap'.data = PublishedPrefixes(managers_)]_vars

----------------------------------------------------------------------------
(* The query surface.  Every query is a const member function that finds the *)
(* ledger with managers_.find and works on the copy getTransactions returns.  *)

\* the result of a query, which changes nothing else
Answer(op, manager_id, result, count) ==
    /\ ret' = Ret(op, manager_id, DefaultRecord, "SUCCESS", "none", result, count)
    /\ UNCHANGED <<data_dir_, snap, managers_, persistence_, persistence_enabled_, wal,
                   wal_stream_, now, logged, acked, appends, threads>>

\* MemoryDatabase::isTimeInRange: timestamp >= start_time && timestamp <= end_time
isTimeInRange(timestamp, start_time, end_time) ==
    ~StrLess(timestamp, start_time) /\ ~StrLess(end_time, timestamp)

\* In each query below the loop `for (trans : transactions) if (...)
\* result.push_back(trans)` is SelectSeq.

\* MemoryDatabase::getTransactionsByTimeRange
getTransactionsByTimeRange(manager_id, start_time, end_time) ==
    LET InRange(trans) == isTimeInRange(trans.timestamp, start_time, end_time)
    IN  Answer("getTransactionsByTimeRange", manager_id,
               SelectSeq(Transactions(managers_, manager_id), InRange), 0)

\* MemoryDatabase::getTransactionsByItem
getTransactionsByItem(manager_id, item_id) ==
    LET OfItem(trans) == trans.item_id = item_id
    IN  Answer("getTransactionsByItem", manager_id,
               SelectSeq(Transactions(managers_, manager_id), OfItem), 0)

\* MemoryDatabase::getTransactionsByDocument
getTransactionsByDocument(manager_id, document_no) ==
    LET OfDocument(trans) == trans.document_no = document_no
    IN  Answer("getTransactionsByDocument", manager_id,
               SelectSeq(Transactions(managers_, manager_id), OfDocument), 0)

\* MemoryDatabase::getTransactionsByPartner
getTransactionsByPartner(manager_id, partner_id) ==
    LET OfPartner(trans) == trans.partner_id = partner_id
    IN  Answer("getTransactionsByPartner", manager_id,
               SelectSeq(Transactions(managers_, manager_id), OfPartner), 0)

\* bool hasManager(manager_id) as a call
hasManagerCall(manager_id) ==
    Answer("hasManager", manager_id, hasManager(manager_id), 0)

\* the loop of getSystemStatus: the sum of every ledger's count
RECURSIVE TotalTransactions(_, _)
TotalTransactions(mgrs, ms) ==
    IF ms = {} THEN 0
    ELSE LET m == CHOOSE x \in ms : TRUE
         IN  mgrs[m].count + TotalTransactions(mgrs, ms \ {m})

\* MemoryDatabase::getSystemStatus
getSystemStatus ==
    LET total == TotalTransactions(managers_, DOMAIN managers_)
    IN  Answer("getSystemStatus", EMPTY,
               [total_managers |-> Cardinality(DOMAIN managers_),
                total_transactions |-> total,
                memory_usage_kb |-> (total * 500) \div 1024], 0)

\* the calls with a tenant argument that NextQueries makes: the two tenants
\* that get ledgers and one that never does
M3 == <<"c">>

QueryTenants == ManagerIds \cup {M3}

NextQueries ==
    \/ \E in \in ConcInputs : appendTransaction(in[1], in[2], "ok")
    \/ Restart(TRUE)
    \/ \E m \in QueryTenants : getTransactions(m)
    \/ \E m \in QueryTenants : getTransactionCount(m)
    \/ \E m \in QueryTenants : calculateInventory(m)
    \/ \E m \in QueryTenants : getCurrentItems(m)
    \/ \E m \in QueryTenants : getDocuments(m)
    \/ \E m \in QueryTenants : getTransactionsByTimeRange(m, TS0, TS1)
    \/ \E m \in QueryTenants : getTransactionsByItem(m, I1)
    \/ \E m \in QueryTenants : \E d \in {EMPTY, <<"d">>} : getTransactionsByDocument(m, d)
    \/ \E m \in QueryTenants : getTransactionsByPartner(m, <<"p">>)
    \/ \E m \in QueryTenants : hasManagerCall(m)
    \/ getSystemStatus

SpecQueries == Init /\ [][NextQueries]_vars

\* the step is a call of a query
QueryStep ==
    /\ ret'.op \notin {"init", "append", "restart"}
    /\ (ret'.op # ret.op \/ ret'.manager_id # ret.manager_id
          \/ ret'.count # ret.count \/ ret'.result # ret.result)

\* what a query returns for a tenant without a ledger
NoResult(op) ==
    CASE op = "hasManager" -> FALSE
      [] op \in {"getCurrentItems", "getDocuments"} -> {}
      [] OTHER -> <<>>

\* C39: queries are read-only: a query leaves the tenant map, every ledger's
\* sequence and count, and the WAL as they were, and a query for a tenant
\* without a ledger returns the empty result, count 0, and creates no ledger.
C39_QueriesReadOnly ==
    [][QueryStep
         => /\ managers_' = managers_
            /\ wal' = wal
            /\ (ret'.op # "getSystemStatus" /\ ~hasManager(ret'.manager_id))
                  => /\ ret'.result = NoResult(ret'.op)
                     /\ ret'.count = 0
                     /\ ret'.manager_id \notin DOMAIN managers_']_vars

\* C39 witness: a query for a tenant without a ledger has returned while
\* another tenant has events, and the tenant still has no ledger
C39_Witness ==
    /\ ret.op = "getTransactions"
    /\ ~hasManager(ret.manager_id)
    /\ ret.result = <<>>
    /\ \E m \in DOMAIN managers_ : managers_[m].count > 0

----------------------------------------------------------------------------
(* Claims about the frame of appendTransaction *)

\* what getTransactions and getTransactionCount give for every tenant but m
\* is the same before and after the step
OthersUnchanged(m) ==
    \A other \in ManagerIds \ {m} :
        /\ Transactions(managers_', other) = Transactions(managers_, other)
        /\ TransactionCount(managers_', other) = TransactionCount(managers_, other)

\* C40: appendTransaction on a tenant, whether it succeeds or fails, leaves
\* the sequence and the count of every other tenant unchanged: this holds
\* for every step of a thread that is inside appendTransaction and for every
\* call that returns.
C40_OtherTenantsUnchanged ==
    [][ /\ \A t \in Clients :
              ( /\ clients[t].pc \in {"wal", "endl", "map", "insert", "push", "pushing", "publish"}
                /\ clients'[t].pc # clients[t].pc )
              => OthersUnchanged(clients[t].manager_id)
        /\ AppendStep => OthersUnchanged(ret'.manager_id) ]_vars

====
